---- MODULE Spec2Model ----
(***************************************************************************)
(* A model of download_skills.py: the Source Locator (parse_github_url),   *)
(* the catalog traversals (get_all_skills, get_top_skills), the per-file   *)
(* download with retry (download_file_from_github) and the acquisition     *)
(* orchestrator (download_skills_parallel / download_skill).               *)
(*                                                                         *)
(* Text is modelled as a sequence of symbols.  A URL is a sequence whose   *)
(* symbols are "/" and words that contain no "/" ("https:", "github.com",  *)
(* "tree", ...); a description is a sequence of one-character strings.     *)
(***************************************************************************)
EXTENDS Integers, Sequences, FiniteSets, TLC

VARIABLES
    \* ---- Source Locator (parse_github_url) ----
    p_pc,       \* "idle", "call" (a URL is at hand), "done" (parsed)
    p_scheme,   \* the parts the URL was written from
    p_host,
    p_segs,
    p_trail,
    p_url,      \* github_url: the text handed to parse_github_url
    p_result,   \* what parse_github_url returned
    \* ---- one file download (download_file_from_github) ----
    f_pc,           \* "idle", "call", "done"
    f_max_retries,  \* self.max_retries
    f_retry_delay,  \* self.retry_delay
    f_responses,    \* what the host answers to the 1st, 2nd, ... HTTP attempt
    f_disk,         \* the local tree
    f_out,          \* outcome of the call: its return value, what it did
    \* ---- catalog traversal (search_skills, get_all_skills, get_top_skills) ----
    c_pc,               \* "idle", "start", "top_loop", "all_loop", "after_loop", "done"
    c_mode,             \* "top" (run_top / get_top_skills) or "all" (get_all_skills)
    c_n,                \* n of get_top_skills
    c_min_stars,        \* min_stars
    c_max_skills,       \* max_skills of get_all_skills: [given, val]
    c_catalog,          \* the marketplace: the stars of its items, in serving order
    c_srvcap,           \* the largest page the marketplace serves
    c_page,             \* page
    c_all_skills,       \* all_skills
    c_total_downloaded, \* total_downloaded
    c_served,           \* history: the responses to the requests made so far
    c_result,           \* the list the traversal returned
    c_raised,           \* whether an exception left the traversal
    \* ---- acquisition (download_skills_parallel, download_skill) ----
    a_pc,                 \* main thread: "idle", "ready" (constructed), "pool", "returned"
    a_organize,           \* self.organize
    a_force,              \* force
    a_workers,            \* self.workers
    a_disk,               \* the local tree under SKILLS_DIR
    a_downloaded_skills,  \* self._downloaded_skills
    a_lock,               \* self._lock: 0 when free, else the task that holds it
    a_skills,             \* skills
    a_tasks,              \* the futures of skills_to_download, in submission order
    a_collected,          \* the futures as_completed has yielded so far
    a_success_count,      \* success_count
    a_ret,                \* the tuple download_skills_parallel returned
    a_disk0,              \* history: the local tree when download_skills_parallel was called
    a_registry0,          \* history: self._downloaded_skills at that moment
    a_skipped,            \* history: the positions of skills the filter loop skipped
    a_calls,              \* history: per position of skills, the kinds of network call made
    \* ---- one classification (SkillCategorizer.categorize) ----
    k_pc,           \* "idle", "call", "done"
    k_words,        \* the words the description was written from
    k_description,  \* description
    k_result,       \* what categorize returned
    \* ---- two mirrors of one source subtree (download_github_directory) ----
    m_pc,       \* "idle", "first", "second", "done"
    m_shape,    \* the source subtree: its entries, without the host's answers
    m_remote,   \* per run, the subtree with the host's answers of that run
    m_disk,     \* the local tree
    m_out       \* per run, the outcome of download_github_directory

parseVars == <<p_pc, p_scheme, p_host, p_segs, p_trail, p_url, p_result>>
fileVars == <<f_pc, f_max_retries, f_retry_delay, f_responses, f_disk, f_out>>

catVars == <<c_pc, c_mode, c_n, c_min_stars, c_max_skills, c_catalog, c_srvcap, c_page,
             c_all_skills, c_total_downloaded, c_served, c_result, c_raised>>

acqVars == <<a_pc, a_organize, a_force, a_workers, a_disk, a_downloaded_skills, a_lock,
             a_skills, a_tasks, a_collected, a_success_count, a_ret,
             a_disk0, a_registry0, a_skipped, a_calls>>

clsVars == <<k_pc, k_words, k_description, k_result>>

mirVars == <<m_pc, m_shape, m_remote, m_disk, m_out>>

vars == <<parseVars, fileVars, catVars, acqVars, clsVars, mirVars>>

(***************************************************************************)
(* Bounds of the model.                                                    *)
(***************************************************************************)
\* longest list of path segments of a generated URL
MaxSegs == 5
\* most trailing slashes appended to a generated URL
MaxTrail == 2
\* largest configured number of attempts per file (--retry)
MaxRetries == 3
\* largest configured base delay between attempts, in seconds
MaxDelay == 1
\* longest generated catalog
MaxCatalog == 3
\* largest star count of a generated catalog item, and largest generated min_stars
MaxScore == 2
\* largest page size of a marketplace that serves pages shorter than asked
MaxSrvCap == 2
\* largest generated n of get_top_skills
MaxTopN == 3
\* largest generated max_skills of get_all_skills
MaxCap == 2
\* longest list handed to download_skills_parallel
MaxSkills == 2
\* largest configured number of pool threads (--workers)
MaxWorkers == 2
\* most words of a generated description
MaxWords == 3

(***************************************************************************)
(* Python string primitives over sequences of symbols.                     *)
(***************************************************************************)
Min(a, b) == IF a <= b THEN a ELSE b

\* s[i:] of Python, with i counted from 0
Drop(s, i) == SubSeq(s, i + 1, Len(s))

\* s[:i] of Python
Take(s, i) == SubSeq(s, 1, Min(i, Len(s)))

\* s.startswith(p)
StartsWith(s, p) == Len(p) <= Len(s) /\ SubSeq(s, 1, Len(p)) = p

\* str.rstrip("/"): every trailing "/" is removed
RECURSIVE rstrip(_)
rstrip(s) ==
    IF s = <<>> THEN s
    ELSE IF s[Len(s)] = "/" THEN rstrip(SubSeq(s, 1, Len(s) - 1))
    ELSE s

\* str.replace(old, ""): every non-overlapping occurrence, left to right
RECURSIVE replace(_, _)
replace(s, old) ==
    IF s = <<>> THEN s
    ELSE IF StartsWith(s, old) THEN replace(Drop(s, Len(old)), old)
    ELSE <<s[1]>> \o replace(Tail(s), old)

\* str.split("/"): the segments between the separators, empty ones kept
RECURSIVE split(_)
split(s) ==
    IF \A i \in 1..Len(s) : s[i] # "/" THEN <<s>>
    ELSE LET i == CHOOSE k \in 1..Len(s) :
                      s[k] = "/" /\ \A j \in 1..(k - 1) : s[j] # "/"
         IN  <<SubSeq(s, 1, i - 1)>> \o split(Drop(s, i))

\* "/".join(parts)
RECURSIVE join(_)
join(parts) ==
    IF parts = <<>> THEN <<>>
    ELSE IF Len(parts) = 1 THEN parts[1]
    ELSE parts[1] \o <<"/">> \o join(Tail(parts))

(***************************************************************************)
(* Source Locator.                                                         *)
(***************************************************************************)
\* the literal "https://github.com/" of line 402
GithubPrefix == <<"https:", "/", "/", "github.com", "/">>

\* the None that parse_github_url returns
NoUrlInfo == [ok |-> FALSE, owner |-> <<>>, repo |-> <<>>, branch |-> <<>>, path |-> <<>>]

\* a mutant of parse_github_url: the path keeps only its first segment
parse_github_url_short_path(github_url) ==
    IF github_url = <<>> THEN NoUrlInfo
    ELSE LET url   == rstrip(github_url)
             parts == split(replace(url, GithubPrefix))
         IN  IF Len(parts) < 4 \/ parts[3] # <<"tree">> THEN NoUrlInfo
             ELSE [ok     |-> TRUE,
                   owner  |-> parts[1],
                   repo   |-> parts[2],
                   branch |-> parts[4],
                   path   |-> IF Len(parts) > 4 THEN parts[5] ELSE <<>>]

parse_github_url(github_url) ==
    IF github_url = <<>> THEN NoUrlInfo
    ELSE LET url   == rstrip(github_url)
             parts == split(replace(url, GithubPrefix))
         IN  IF Len(parts) < 4 \/ parts[3] # <<"tree">> THEN NoUrlInfo
             ELSE [ok     |-> TRUE,
                   owner  |-> parts[1],
                   repo   |-> parts[2],
                   branch |-> parts[4],
                   path   |-> IF Len(parts) > 4 THEN join(Drop(parts, 4)) ELSE <<>>]

(***************************************************************************)
(* The URLs the Source Locator is run on: scheme://host, then the path     *)
(* segments each preceded by "/", then trailing slashes.                   *)
(***************************************************************************)
Schemes == {"https:", "http:"}
Hosts == {"github.com", "host", "tree"}

\* a path segment: a word, or the empty segment
SegChoices == {<<"acme">>, <<"tree">>, <<"main">>, <<>>}

RECURSIVE SeqsUpTo(_, _)
SeqsUpTo(S, n) ==
    IF n = 0 THEN {<<>>}
    ELSE LET shorter == SeqsUpTo(S, n - 1)
         IN  shorter \cup {Append(q, x) : q \in {r \in shorter : Len(r) = n - 1}, x \in S}

\* the path of the example of the specification: acme/widgets/tree/main/examples/demo
ExampleSegs ==
    << <<"acme">>, <<"widgets">>, <<"tree">>, <<"main">>, <<"examples">>, <<"demo">> >>

SegLists == SeqsUpTo(SegChoices, MaxSegs) \cup {ExampleSegs}

RECURSIVE PathText(_)
PathText(segs) ==
    IF segs = <<>> THEN <<>>
    ELSE <<"/">> \o segs[1] \o PathText(Tail(segs))

Slashes(n) == [i \in 1..n |-> "/"]

BuildUrl(scheme, host, segs, trail) ==
    <<scheme, "/", "/", host>> \o PathText(segs) \o Slashes(trail)

\* url_info = self.parse_github_url(github_url)
ParseUrl ==
    /\ p_pc = "call"
    /\ p_result' = parse_github_url(p_url)
    /\ p_pc' = "done"
    /\ UNCHANGED <<p_scheme, p_host, p_segs, p_trail, p_url>>
    /\ UNCHANGED <<fileVars, catVars, acqVars, clsVars, mirVars>>

(***************************************************************************)
(* The local tree under SKILLS_DIR.  A path is the sequence of its names   *)
(* below SKILLS_DIR; files and dirs hold the paths that exist.             *)
(***************************************************************************)
\* the proper ancestors of a path, SKILLS_DIR (<<>>) included
Parents(path) == {SubSeq(path, 1, k) : k \in 0..(Len(path) - 1)}

EmptyDisk == [files |-> {}, dirs |-> {<<>>}]

\* Path.exists()
Exists(disk, path) == path \in disk.files \/ path \in disk.dirs

\* output_path.parent.mkdir(parents=True, exist_ok=True) and open(output_path, "wb")
\* raise an OSError when an ancestor is a file or the path itself is a directory
CanWrite(disk, path) ==
    /\ \A d \in Parents(path) : d \notin disk.files
    /\ path \notin disk.dirs

\* line 471: mkdir(parents=True, exist_ok=True) goes through unless an ancestor is a file
CanMakeParents(disk, path) == \A d \in Parents(path) : d \notin disk.files

MakeParents(disk, path) == [disk EXCEPT !.dirs = @ \cup Parents(path)]

\* lines 470-474: the parents are created, the file is written (or overwritten)
WriteFile(disk, path) ==
    [files |-> disk.files \cup {path}, dirs |-> disk.dirs \cup Parents(path)]

(***************************************************************************)
(* download_file_from_github.  The host's answer to one HTTP attempt is    *)
(*   "ok"                 a 2xx response, and the local write goes through *)
(*   "request_exception"  a requests.RequestException: transport failure,  *)
(*                        timeout or HTTP error status                     *)
(*   "os_error"           a 2xx response, but the local write raises       *)
(*                        before anything is created                       *)
(*   "open_error"         a 2xx response; the parent directories are made, *)
(*                        then open() raises                               *)
(* The outcome records the return value, whether an exception left the     *)
(* function, the HTTP attempts made, the seconds slept and the disk.       *)
(***************************************************************************)
Responses == {"ok", "request_exception", "os_error", "open_error"}

FileOutcome(ret, raised, attempts, slept, disk) ==
    [ret |-> ret, raised |-> raised, attempts |-> attempts, slept |-> slept, disk |-> disk]

\* a mutant of download_attempts: the loop gives up one attempt early
RECURSIVE download_attempts_one_short(_, _, _, _, _, _, _)
download_attempts_one_short(attempt, slept, responses, output_path, disk, max_retries, retry_delay) ==
    IF attempt >= max_retries - 1 THEN FileOutcome(FALSE, FALSE, attempt, slept, disk)
    ELSE LET response == responses[attempt + 1] IN
         CASE response = "ok" /\ CanWrite(disk, output_path) ->
                  FileOutcome(TRUE, FALSE, attempt + 1, slept, WriteFile(disk, output_path))
           [] response = "request_exception" ->
                  download_attempts_one_short(attempt + 1, slept + retry_delay * (attempt + 1),
                                              responses, output_path, disk, max_retries, retry_delay)
           [] response = "open_error" /\ CanMakeParents(disk, output_path) ->
                  FileOutcome(FALSE, TRUE, attempt + 1, slept, MakeParents(disk, output_path))
           [] OTHER ->
                  FileOutcome(FALSE, TRUE, attempt + 1, slept, disk)

\* the body of the loop of line 464 from iteration `attempt` on
RECURSIVE download_attempts(_, _, _, _, _, _, _)
download_attempts(attempt, slept, responses, output_path, disk, max_retries, retry_delay) ==
    IF attempt >= max_retries THEN FileOutcome(FALSE, FALSE, attempt, slept, disk)
    ELSE LET response == responses[attempt + 1] IN
         CASE response = "ok" /\ CanWrite(disk, output_path) ->
                  FileOutcome(TRUE, FALSE, attempt + 1, slept, WriteFile(disk, output_path))
           [] response = "request_exception" /\ attempt < max_retries - 1 ->
                  download_attempts(attempt + 1, slept + retry_delay * (attempt + 1),
                                    responses, output_path, disk, max_retries, retry_delay)
           [] response = "request_exception" /\ attempt >= max_retries - 1 ->
                  FileOutcome(FALSE, FALSE, attempt + 1, slept, disk)
           [] response = "open_error" /\ CanMakeParents(disk, output_path) ->
                  FileOutcome(FALSE, TRUE, attempt + 1, slept, MakeParents(disk, output_path))
           [] OTHER ->
                  FileOutcome(FALSE, TRUE, attempt + 1, slept, disk)

\* lines 448-487
download_file_from_github(responses, output_path, disk, max_retries, retry_delay) ==
    download_attempts(0, 0, responses, output_path, disk, max_retries, retry_delay)

\* the file the single download of SpecFile writes
FileOutputPath == <<"s1", "SKILL.md">>

NoFileOutcome == FileOutcome(FALSE, FALSE, 0, 0, EmptyDisk)

\* self.download_file_from_github(download_url, output_file)
DownloadFile ==
    /\ f_pc = "call"
    /\ f_out' = download_file_from_github(f_responses, FileOutputPath, f_disk,
                                          f_max_retries, f_retry_delay)
    /\ f_pc' = "done"
    /\ UNCHANGED <<f_max_retries, f_retry_delay, f_responses, f_disk>>
    /\ UNCHANGED <<parseVars, catVars, acqVars, clsVars, mirVars>>

(***************************************************************************)
(* Catalog Client and the two traversals.  A catalog item is modelled by   *)
(* its star count, s.get("stars", 0).  The marketplace answers a request   *)
(* for a page with                                                         *)
(*   kind "ok"                 success: the items of that page and the     *)
(*                             hasNext flag it chooses to send             *)
(*   kind "unsuccess"          a 2xx response whose success field is false *)
(*   kind "request_exception"  transport failure or HTTP error status      *)
(***************************************************************************)
\* limit = 50 (lines 262 and 331)
limit == 50

\* an empty dict {}
EmptyDict == [k \in {} |-> FALSE]

\* pagination.get("hasNext", False)
GetHasNext(pagination) ==
    IF "hasNext" \in DOMAIN pagination THEN pagination["hasNext"] ELSE FALSE

\* [s for s in skills if s.get("stars", 0) >= min_stars]
FilterStars(skills, min_stars) == SelectSeq(skills, LAMBDA stars : stars >= min_stars)

\* the items the marketplace holds on page `page` when it serves `size` per page
PageOf(catalog, page, size) ==
    SubSeq(catalog, Min((page - 1) * size, Len(catalog)) + 1, Min(page * size, Len(catalog)))

CatalogResponses(catalog, page, size) ==
    {[kind |-> "ok", skills |-> PageOf(catalog, page, size), hasNext |-> h] : h \in BOOLEAN}
        \cup {[kind |-> k, skills |-> <<>>, hasNext |-> FALSE] :
                  k \in {"unsuccess", "request_exception"}}

\* a mutant of search_skills: a failed request is raised to the caller
search_skills_raising(response) ==
    IF response.kind = "ok"
    THEN [skills |-> response.skills, pagination |-> [hasNext |-> response.hasNext],
          raised |-> FALSE]
    ELSE [skills |-> <<>>, pagination |-> EmptyDict, raised |-> TRUE]

\* lines 238-253: what search_skills returns for the marketplace's response
search_skills(response) ==
    IF response.kind = "ok"
    THEN [skills |-> response.skills, pagination |-> [hasNext |-> response.hasNext],
          raised |-> FALSE]
    ELSE [skills |-> <<>>, pagination |-> EmptyDict, raised |-> FALSE]

\* a mutant of CapSet: the cap is never taken as set
CapSet_never(max_skills) == FALSE

\* `if max_skills and ...`: None and 0 are both false
CapSet(max_skills) == max_skills.given /\ max_skills.val # 0

Locals(all_skills, total_downloaded, page, break) ==
    [all_skills |-> all_skills, total_downloaded |-> total_downloaded,
     page |-> page, break |-> break]

\* a mutant of get_all_skills_iteration: the filter is applied after the cap
get_all_skills_iteration_cap_first(all_skills, total_downloaded, page, min_stars, max_skills, found) ==
    IF found.skills = <<>> THEN Locals(all_skills, total_downloaded, page, TRUE)
    ELSE LET total  == total_downloaded + Len(found.skills)
             capped == IF CapSet(max_skills) /\ total >= max_skills.val
                       THEN Take(all_skills \o found.skills, max_skills.val)
                       ELSE all_skills \o found.skills
             kept   == IF min_stars > 0 THEN FilterStars(capped, min_stars) ELSE capped
         IN  IF CapSet(max_skills) /\ total >= max_skills.val
             THEN Locals(kept, total, page, TRUE)
             ELSE IF ~GetHasNext(found.pagination)
             THEN Locals(kept, total, page, TRUE)
             ELSE Locals(kept, total, page + 1, FALSE)

\* lines 280-301: one iteration of the loop of get_all_skills, after the request
get_all_skills_iteration(all_skills, total_downloaded, page, min_stars, max_skills, found) ==
    IF found.skills = <<>> THEN Locals(all_skills, total_downloaded, page, TRUE)
    ELSE LET skills == IF min_stars > 0 THEN FilterStars(found.skills, min_stars)
                       ELSE found.skills
             total  == total_downloaded + Len(skills)
         IN  IF CapSet(max_skills) /\ total >= max_skills.val
             THEN Locals(Take(all_skills \o skills, max_skills.val), total, page, TRUE)
             ELSE IF ~GetHasNext(found.pagination)
             THEN Locals(all_skills \o skills, total, page, TRUE)
             ELSE Locals(all_skills \o skills, total, page + 1, FALSE)

\* a mutant of get_top_skills_iteration: the list is not cut down to n
get_top_skills_iteration_uncut(all_skills, page, n, found) ==
    IF found.skills = <<>> THEN Locals(all_skills, 0, page, TRUE)
    ELSE IF Len(all_skills \o found.skills) >= n
    THEN Locals(all_skills \o found.skills, 0, page, TRUE)
    ELSE IF ~GetHasNext(found.pagination)
    THEN Locals(all_skills \o found.skills, 0, page, TRUE)
    ELSE Locals(all_skills \o found.skills, 0, page + 1, FALSE)

\* lines 348-365: one iteration of the loop of get_top_skills, after the request
get_top_skills_iteration(all_skills, page, n, found) ==
    IF found.skills = <<>> THEN Locals(all_skills, 0, page, TRUE)
    ELSE IF Len(all_skills \o found.skills) >= n
    THEN Locals(Take(all_skills \o found.skills, n), 0, page, TRUE)
    ELSE IF ~GetHasNext(found.pagination)
    THEN Locals(all_skills \o found.skills, 0, page, TRUE)
    ELSE Locals(all_skills \o found.skills, 0, page + 1, FALSE)

\* a mutant of get_top_skills_filter: the filter is left out
get_top_skills_filter_none(all_skills, min_stars) == all_skills

\* lines 367-368: the filter of get_top_skills, applied once after the loop
get_top_skills_filter(all_skills, min_stars) ==
    IF min_stars > 0 THEN FilterStars(all_skills, min_stars) ELSE all_skills

\* the page size the marketplace uses for a request with limit = 50
PageSize == Min(limit, c_srvcap)

\* run_top (lines 759-764) enters get_top_skills (lines 329-331)
RunTop ==
    /\ c_pc = "start" /\ c_mode = "top"
    /\ c_all_skills' = <<>>
    /\ c_page' = 1
    /\ c_pc' = "top_loop"
    /\ UNCHANGED <<c_mode, c_n, c_min_stars, c_max_skills, c_catalog, c_srvcap,
                   c_total_downloaded, c_served, c_result, c_raised>>
    /\ UNCHANGED <<parseVars, fileVars, acqVars, clsVars, mirVars>>

\* one turn of `while len(all_skills) < n` (lines 339-365): a request and its handling
GetTopSkillsPage ==
    /\ c_pc = "top_loop"
    /\ Len(c_all_skills) < c_n
    /\ \E response \in CatalogResponses(c_catalog, c_page, PageSize) :
          LET found == search_skills(response)
              after == get_top_skills_iteration(c_all_skills, c_page, c_n, found)
          IN  /\ c_served' = Append(c_served, [page |-> c_page, response |-> response])
              /\ c_raised' = found.raised
              /\ c_all_skills' = after.all_skills
              /\ c_page' = after.page
              /\ c_pc' = IF found.raised THEN "done"
                         ELSE IF after.break THEN "after_loop" ELSE "top_loop"
    /\ UNCHANGED <<c_mode, c_n, c_min_stars, c_max_skills, c_catalog, c_srvcap,
                   c_total_downloaded, c_result>>
    /\ UNCHANGED <<parseVars, fileVars, acqVars, clsVars, mirVars>>

\* lines 367-375: the loop is over; filter and return
GetTopSkillsReturn ==
    /\ c_mode = "top"
    /\ c_pc = "after_loop" \/ (c_pc = "top_loop" /\ ~(Len(c_all_skills) < c_n))
    /\ c_result' = get_top_skills_filter(c_all_skills, c_min_stars)
    /\ c_all_skills' = c_result'
    /\ c_pc' = "done"
    /\ UNCHANGED <<c_mode, c_n, c_min_stars, c_max_skills, c_catalog, c_srvcap, c_page,
                   c_total_downloaded, c_served, c_raised>>
    /\ UNCHANGED <<parseVars, fileVars, acqVars, clsVars, mirVars>>

\* get_all_skills is entered (lines 259-263); run_all (line 751) gives it no cap
GetAllSkillsCall ==
    /\ c_pc = "start" /\ c_mode = "all"
    /\ c_all_skills' = <<>>
    /\ c_page' = 1
    /\ c_total_downloaded' = 0
    /\ c_pc' = "all_loop"
    /\ UNCHANGED <<c_mode, c_n, c_min_stars, c_max_skills, c_catalog, c_srvcap,
                   c_served, c_result, c_raised>>
    /\ UNCHANGED <<parseVars, fileVars, acqVars, clsVars, mirVars>>

\* one turn of `while True` (lines 271-301): a request and its handling
GetAllSkillsPage ==
    /\ c_pc = "all_loop"
    /\ \E response \in CatalogResponses(c_catalog, c_page, PageSize) :
          LET found == search_skills(response)
              after == get_all_skills_iteration(c_all_skills, c_total_downloaded, c_page,
                                                c_min_stars, c_max_skills, found)
          IN  /\ c_served' = Append(c_served, [page |-> c_page, response |-> response])
              /\ c_raised' = found.raised
              /\ c_all_skills' = after.all_skills
              /\ c_total_downloaded' = after.total_downloaded
              /\ c_page' = after.page
              /\ c_pc' = IF found.raised THEN "done"
                         ELSE IF after.break THEN "after_loop" ELSE "all_loop"
    /\ UNCHANGED <<c_mode, c_n, c_min_stars, c_max_skills, c_catalog, c_srvcap, c_result>>
    /\ UNCHANGED <<parseVars, fileVars, acqVars, clsVars, mirVars>>

\* lines 303-309: the loop is over; return
GetAllSkillsReturn ==
    /\ c_mode = "all"
    /\ c_pc = "after_loop"
    /\ c_result' = c_all_skills
    /\ c_pc' = "done"
    /\ UNCHANGED <<c_mode, c_n, c_min_stars, c_max_skills, c_catalog, c_srvcap, c_page,
                   c_all_skills, c_total_downloaded, c_served, c_raised>>
    /\ UNCHANGED <<parseVars, fileVars, acqVars, clsVars, mirVars>>

(***************************************************************************)
(* Classifier (SkillCategorizer).  A description is a sequence of          *)
(* characters; the table is CATEGORIES of lines 45-112, in its order.      *)
(***************************************************************************)
\* Python's None
None == "None"

UpperCase == <<"A", "B", "C", "D", "E", "F", "G", "H", "I", "J", "K", "L", "M",
               "N", "O", "P", "Q", "R", "S", "T", "U", "V", "W", "X", "Y", "Z">>
LowerCase == <<"a", "b", "c", "d", "e", "f", "g", "h", "i", "j", "k", "l", "m",
               "n", "o", "p", "q", "r", "s", "t", "u", "v", "w", "x", "y", "z">>

LowerChar(c) ==
    IF \E i \in 1..26 : UpperCase[i] = c
    THEN LowerCase[CHOOSE i \in 1..26 : UpperCase[i] = c]
    ELSE c

\* str.lower()
lower(text) == [i \in 1..Len(text) |-> LowerChar(text[i])]

\* `keyword in text` of Python: keyword occurs in text as a substring
Contains(text, keyword) ==
    \E i \in 0..(Len(text) - Len(keyword)) : SubSeq(text, i + 1, i + Len(keyword)) = keyword

\* any(keyword in desc_lower for keyword in keywords)
AnyKeyword(desc_lower, keywords) ==
    \E k \in 1..Len(keywords) : Contains(desc_lower, keywords[k])

CATEGORIES ==
  <<
    [name |-> "Development",
     keywords |->
       << <<"d", "e", "v", "e", "l", "o", "p", "m", "e", "n", "t">>,
         <<"c", "o", "d", "i", "n", "g">>,
         <<"p", "r", "o", "g", "r", "a", "m", "m", "i", "n", "g">>,
         <<"d", "e", "v">>,
         <<"b", "u", "i", "l", "d">>,
         <<"c", "o", "m", "p", "i", "l", "e">> >>,
     subcategories |-> <<
        [name |-> "Frontend",
         keywords |->
           << <<"f", "r", "o", "n", "t", "e", "n", "d">>,
             <<"r", "e", "a", "c", "t">>,
             <<"v", "u", "e">>,
             <<"a", "n", "g", "u", "l", "a", "r">>,
             <<"U", "I">>,
             <<"w", "e", "b", " ", "d", "e", "s", "i", "g", "n">>,
             <<"c", "s", "s">>,
             <<"h", "t", "m", "l">> >>],
        [name |-> "Backend",
         keywords |->
           << <<"b", "a", "c", "k", "e", "n", "d">>,
             <<"a", "p", "i">>,
             <<"s", "e", "r", "v", "e", "r">>,
             <<"d", "a", "t", "a", "b", "a", "s", "e">>,
             <<"s", "q", "l">>,
             <<"p", "o", "s", "t", "g", "r", "e", "s", "q", "l">>,
             <<"r", "e", "d", "i", "s">> >>],
        [name |-> "Mobile",
         keywords |->
           << <<"m", "o", "b", "i", "l", "e">>,
             <<"i", "o", "s">>,
             <<"a", "n", "d", "r", "o", "i", "d">>,
             <<"r", "e", "a", "c", "t", " ", "n", "a", "t", "i", "v", "e">>,
             <<"f", "l", "u", "t", "t", "e", "r">>,
             <<"s", "w", "i", "f", "t">>,
             <<"k", "o", "t", "l", "i", "n">> >>],
        [name |-> "DevOps",
         keywords |->
           << <<"d", "e", "v", "o", "p", "s">>,
             <<"c", "i", "/", "c", "d">>,
             <<"d", "o", "c", "k", "e", "r">>,
             <<"k", "u", "b", "e", "r", "n", "e", "t", "e", "s">>,
             <<"d", "e", "p", "l", "o", "y", "m", "e", "n", "t">>,
             <<"i", "n", "f", "r", "a", "s", "t", "r", "u", "c", "t", "u", "r", "e">> >>] >>],
    [name |-> "Data",
     keywords |->
       << <<"d", "a", "t", "a">>,
         <<"a", "n", "a", "l", "y", "t", "i", "c", "s">>,
         <<"a", "n", "a", "l", "y", "s", "i", "s">>,
         <<"m", "a", "c", "h", "i", "n", "e", " ", "l", "e", "a", "r", "n", "i", "n", "g">>,
         <<"m", "l">>,
         <<"a", "i">> >>,
     subcategories |-> <<
        [name |-> "DataScience",
         keywords |->
           << <<"d", "a", "t", "a", " ", "s", "c", "i", "e", "n", "c", "e">>,
             <<"s", "t", "a", "t", "i", "s", "t", "i", "c", "s">>,
             <<"v", "i", "s", "u", "a", "l", "i", "z", "a", "t", "i", "o", "n">>,
             <<"p", "a", "n", "d", "a", "s">>,
             <<"n", "u", "m", "p", "y">> >>],
        [name |-> "MachineLearning",
         keywords |->
           << <<"m", "a", "c", "h", "i", "n", "e", " ", "l", "e", "a", "r", "n", "i", "n", "g">>,
             <<"d", "e", "e", "p", " ", "l", "e", "a", "r", "n", "i", "n", "g">>,
             <<"n", "e", "u", "r", "a", "l", " ", "n", "e", "t", "w", "o", "r", "k">>,
             <<"p", "y", "t", "o", "r", "c", "h">>,
             <<"t", "e", "n", "s", "o", "r", "f", "l", "o", "w">> >>],
        [name |-> "DataEngineering",
         keywords |->
           << <<"e", "t", "l">>,
             <<"p", "i", "p", "e", "l", "i", "n", "e">>,
             <<"d", "a", "t", "a", " ", "w", "a", "r", "e", "h", "o", "u", "s", "e">>,
             <<"s", "p", "a", "r", "k">>,
             <<"a", "i", "r", "f", "l", "o", "w">> >>] >>],
    [name |-> "Testing",
     keywords |->
       << <<"t", "e", "s", "t">>,
         <<"t", "e", "s", "t", "i", "n", "g">>,
         <<"q", "a">>,
         <<"q", "u", "a", "l", "i", "t", "y">>,
         <<"e", "2", "e">>,
         <<"u", "n", "i", "t", " ", "t", "e", "s", "t">>,
         <<"i", "n", "t", "e", "g", "r", "a", "t", "i", "o", "n">> >>,
     subcategories |-> <<
        [name |-> "UnitTesting",
         keywords |->
           << <<"u", "n", "i", "t", " ", "t", "e", "s", "t">>,
             <<"j", "e", "s", "t">>,
             <<"p", "y", "t", "e", "s", "t">>,
             <<"v", "i", "t", "e", "s", "t">> >>],
        [name |-> "E2ETesting",
         keywords |->
           << <<"e", "2", "e">>,
             <<"e", "n", "d", "-", "t", "o", "-", "e", "n", "d">>,
             <<"p", "l", "a", "y", "w", "r", "i", "g", "h", "t">>,
             <<"c", "y", "p", "r", "e", "s", "s">>,
             <<"s", "e", "l", "e", "n", "i", "u", "m">> >>],
        [name |-> "Performance",
         keywords |->
           << <<"p", "e", "r", "f", "o", "r", "m", "a", "n", "c", "e">>,
             <<"l", "o", "a", "d", " ", "t", "e", "s", "t">>,
             <<"b", "e", "n", "c", "h", "m", "a", "r", "k">>,
             <<"p", "r", "o", "f", "i", "l", "i", "n", "g">> >>] >>],
    [name |-> "Documentation",
     keywords |->
       << <<"d", "o", "c", "u", "m", "e", "n", "t", "a", "t", "i", "o", "n">>,
         <<"d", "o", "c", "s">>,
         <<"w", "r", "i", "t", "i", "n", "g">>,
         <<"m", "a", "r", "k", "d", "o", "w", "n">>,
         <<"r", "e", "a", "d", "m", "e">> >>,
     subcategories |-> <<
        [name |-> "Technical",
         keywords |->
           << <<"t", "e", "c", "h", "n", "i", "c", "a", "l", " ", "w", "r", "i", "t", "i", "n", "g">>,
             <<"a", "p", "i", " ", "d", "o", "c">>,
             <<"s", "d", "k", " ", "d", "o", "c">> >>],
        [name |-> "UserGuides",
         keywords |->
           << <<"u", "s", "e", "r", " ", "g", "u", "i", "d", "e">>,
             <<"t", "u", "t", "o", "r", "i", "a", "l">>,
             <<"h", "o", "w", "-", "t", "o">> >>],
        [name |-> "Blog",
         keywords |->
           << <<"b", "l", "o", "g">>,
             <<"a", "r", "t", "i", "c", "l", "e">>,
             <<"p", "o", "s", "t">> >>] >>],
    [name |-> "Security",
     keywords |->
       << <<"s", "e", "c", "u", "r", "i", "t", "y">>,
         <<"a", "u", "t", "h", "e", "n", "t", "i", "c", "a", "t", "i", "o", "n">>,
         <<"a", "u", "t", "h", "o", "r", "i", "z", "a", "t", "i", "o", "n">>,
         <<"e", "n", "c", "r", "y", "p", "t", "i", "o", "n">>,
         <<"c", "o", "m", "p", "l", "i", "a", "n", "c", "e">>,
         <<"a", "u", "d", "i", "t">> >>,
     subcategories |-> <<
        [name |-> "Auth",
         keywords |->
           << <<"a", "u", "t", "h", "e", "n", "t", "i", "c", "a", "t", "i", "o", "n">>,
             <<"o", "a", "u", "t", "h">>,
             <<"j", "w", "t">>,
             <<"s", "s", "o">> >>],
        [name |-> "Audit",
         keywords |->
           << <<"s", "e", "c", "u", "r", "i", "t", "y", " ", "a", "u", "d", "i", "t">>,
             <<"v", "u", "l", "n", "e", "r", "a", "b", "i", "l", "i", "t", "y">>,
             <<"p", "e", "n", "e", "t", "r", "a", "t", "i", "o", "n", " ", "t", "e", "s", "t">>,
             <<"a", "u", "d", "i", "t">> >>],
        [name |-> "Compliance",
         keywords |->
           << <<"c", "o", "m", "p", "l", "i", "a", "n", "c", "e">>,
             <<"g", "d", "p", "r">>,
             <<"h", "i", "p", "a", "a">>,
             <<"p", "c", "i">>,
             <<"r", "e", "g", "u", "l", "a", "t", "o", "r", "y">> >>] >>],
    [name |-> "Design",
     keywords |->
       << <<"d", "e", "s", "i", "g", "n">>,
         <<"u", "i">>,
         <<"u", "x">>,
         <<"v", "i", "s", "u", "a", "l">>,
         <<"g", "r", "a", "p", "h", "i", "c">> >>,
     subcategories |-> <<
        [name |-> "UIDesign",
         keywords |->
           << <<"u", "i", " ", "d", "e", "s", "i", "g", "n">>,
             <<"i", "n", "t", "e", "r", "f", "a", "c", "e">>,
             <<"c", "o", "m", "p", "o", "n", "e", "n", "t", " ", "l", "i", "b", "r", "a", "r", "y">> >>],
        [name |-> "UXDesign",
         keywords |->
           << <<"u", "x", " ", "d", "e", "s", "i", "g", "n">>,
             <<"u", "s", "e", "r", " ", "e", "x", "p", "e", "r", "i", "e", "n", "c", "e">>,
             <<"u", "s", "a", "b", "i", "l", "i", "t", "y">> >>],
        [name |-> "Graphics",
         keywords |->
           << <<"g", "r", "a", "p", "h", "i", "c", "s">>,
             <<"i", "l", "l", "u", "s", "t", "r", "a", "t", "i", "o", "n">>,
             <<"i", "m", "a", "g", "e">> >>] >>],
    [name |-> "Business",
     keywords |->
       << <<"b", "u", "s", "i", "n", "e", "s", "s">>,
         <<"p", "r", "o", "d", "u", "c", "t">>,
         <<"m", "a", "n", "a", "g", "e", "m", "e", "n", "t">>,
         <<"s", "t", "r", "a", "t", "e", "g", "y">>,
         <<"m", "a", "r", "k", "e", "t", "i", "n", "g">> >>,
     subcategories |-> <<
        [name |-> "ProductManagement",
         keywords |->
           << <<"p", "r", "o", "d", "u", "c", "t">>,
             <<"p", "r", "d">>,
             <<"r", "o", "a", "d", "m", "a", "p">>,
             <<"f", "e", "a", "t", "u", "r", "e">> >>],
        [name |-> "Marketing",
         keywords |->
           << <<"m", "a", "r", "k", "e", "t", "i", "n", "g">>,
             <<"s", "e", "o">>,
             <<"c", "o", "n", "t", "e", "n", "t">>,
             <<"s", "o", "c", "i", "a", "l", " ", "m", "e", "d", "i", "a">> >>],
        [name |-> "Analytics",
         keywords |->
           << <<"a", "n", "a", "l", "y", "t", "i", "c", "s">>,
             <<"m", "e", "t", "r", "i", "c", "s">>,
             <<"k", "p", "i">>,
             <<"d", "a", "s", "h", "b", "o", "a", "r", "d">> >>] >>],
    [name |-> "Research",
     keywords |->
       << <<"r", "e", "s", "e", "a", "r", "c", "h">>,
         <<"s", "c", "i", "e", "n", "t", "i", "f", "i", "c">>,
         <<"a", "c", "a", "d", "e", "m", "i", "c">>,
         <<"p", "a", "p", "e", "r">>,
         <<"s", "t", "u", "d", "y">> >>,
     subcategories |-> <<
        [name |-> "Scientific",
         keywords |->
           << <<"s", "c", "i", "e", "n", "t", "i", "f", "i", "c">>,
             <<"b", "i", "o", "l", "o", "g", "y">>,
             <<"c", "h", "e", "m", "i", "s", "t", "r", "y">>,
             <<"p", "h", "y", "s", "i", "c", "s">> >>],
        [name |-> "Academic",
         keywords |->
           << <<"a", "c", "a", "d", "e", "m", "i", "c">>,
             <<"p", "u", "b", "l", "i", "c", "a", "t", "i", "o", "n">>,
             <<"c", "i", "t", "a", "t", "i", "o", "n">> >>],
        [name |-> "Medical",
         keywords |->
           << <<"m", "e", "d", "i", "c", "a", "l">>,
             <<"h", "e", "a", "l", "t", "h", "c", "a", "r", "e">>,
             <<"c", "l", "i", "n", "i", "c", "a", "l">> >>] >>]
  >>

Classification(category, subcategory) == [category |-> category, subcategory |-> subcategory]

\* lines 114-143
categorize(description) ==
    IF description = <<>> THEN Classification("Uncategorized", None)
    ELSE LET desc_lower == lower(description)
             SubHit(i, j) == AnyKeyword(desc_lower, CATEGORIES[i].subcategories[j].keywords)
             SubHits == UNION {{<<i, j>> : j \in {k \in 1..Len(CATEGORIES[i].subcategories) :
                                                       SubHit(i, k)}} :
                               i \in 1..Len(CATEGORIES)}
             TopHits == {i \in 1..Len(CATEGORIES) : AnyKeyword(desc_lower, CATEGORIES[i].keywords)}
         IN  IF SubHits # {}
             THEN LET first == CHOOSE ij \in SubHits :
                                  \A o \in SubHits :
                                      ij[1] < o[1] \/ (ij[1] = o[1] /\ ij[2] <= o[2])
                  IN  Classification(CATEGORIES[first[1]].name,
                                     CATEGORIES[first[1]].subcategories[first[2]].name)
             ELSE IF TopHits # {}
             THEN LET first == CHOOSE i \in TopHits : \A o \in TopHits : i <= o
                  IN  Classification(CATEGORIES[first].name, None)
             ELSE Classification("Uncategorized", None)

\* the words descriptions are written from: keywords of the table in the case the
\* table has them, a keyword in another case, and a word that is no keyword
Words ==
    { <<"U", "I">>,
      <<"A", "P", "I">>,
      <<"b", "a", "c", "k", "e", "n", "d">>,
      <<"a", "p", "i">>,
      <<"s", "e", "r", "v", "e", "r">>,
      <<"s", "e", "c", "u", "r", "i", "t", "y">>,
      <<"i", "n", "t", "e", "r", "f", "a", "c", "e">>,
      <<"d", "e", "v">>,
      <<"z", "z", "z">> }

\* the words separated by single spaces
RECURSIVE JoinWords(_)
JoinWords(ws) ==
    IF ws = <<>> THEN <<>>
    ELSE IF Len(ws) = 1 THEN ws[1]
    ELSE ws[1] \o <<" ">> \o JoinWords(Tail(ws))

\* category, subcategory = SkillCategorizer.categorize(description)
Categorize ==
    /\ k_pc = "call"
    /\ k_result' = categorize(k_description)
    /\ k_pc' = "done"
    /\ UNCHANGED <<k_words, k_description>>
    /\ UNCHANGED <<parseVars, fileVars, catVars, acqVars, mirVars>>

(***************************************************************************)
(* Destination paths and the registry of acquired names.                   *)
(***************************************************************************)
\* the manifest file name
Manifest == "SKILL.md"

\* lines 201-224
get_skill_directory(skill, organize) ==
    IF ~organize THEN <<skill.name>>
    ELSE LET c == categorize(skill.description)
         IN  IF c.subcategory # None
             THEN <<c.category, c.subcategory, skill.name>>
             ELSE <<c.category, skill.name>>

\* the directories directly under directory d (Path.iterdir() filtered by is_dir())
ChildDirs(disk, d) ==
    {q \in disk.dirs : Len(q) = Len(d) + 1 /\ SubSeq(q, 1, Len(d)) = d}

\* a mutant of HasManifest: the manifest is taken to be there
HasManifest_unchecked(disk, d) == TRUE

\* (d / "SKILL.md").exists()
HasManifest(disk, d) == Exists(disk, Append(d, Manifest))

\* the last name of a path (Path.name)
BaseName(path) == path[Len(path)]

\* lines 172-199: the names found by the scan of SKILLS_DIR at construction
load_downloaded_skills(disk, organize) ==
    IF <<>> \notin disk.dirs THEN {}
    ELSE IF organize
    THEN LET items == UNION {ChildDirs(disk, c) : c \in ChildDirs(disk, <<>>)}
             deeper == UNION {ChildDirs(disk, i) : i \in {j \in items : ~HasManifest(disk, j)}}
         IN  {BaseName(i) : i \in {j \in items : HasManifest(disk, j)}}
                 \cup {BaseName(d) : d \in {e \in deeper : HasManifest(disk, e)}}
    ELSE {BaseName(d) : d \in {c \in ChildDirs(disk, <<>>) : HasManifest(disk, c)}}

\* lines 535-538
is_already_downloaded(skill, registry) == skill.name \in registry

(***************************************************************************)
(* Tree Mirror (download_github_directory) and the direct manifest fetch   *)
(* (download_skill_md_directly).  What the host holds and how it answers   *)
(* is a listing: whether the contents request succeeds and, if so, its     *)
(* entries; a file entry carries the host's answers to the HTTP attempts   *)
(* of its download, a dir entry the listing of that directory.             *)
(***************************************************************************)
\* max_retries and retry_delay of a downloader built with the defaults
default_max_retries == 3
default_retry_delay == 1

Listing(ok, entries) == [ok |-> ok, entries |-> entries]

FileEntry(name, has_url, responses) ==
    [type |-> "file", name |-> name, download_url |-> has_url,
     responses |-> responses, listing |-> Listing(FALSE, <<>>)]

DirEntry(name, listing) ==
    [type |-> "dir", name |-> name, download_url |-> FALSE,
     responses |-> <<>>, listing |-> listing]

\* count: the return value; raised: an exception left the call;
\* calls: the kinds of network call made
MirrorOutcome(count, disk, raised, calls) ==
    [count |-> count, disk |-> disk, raised |-> raised, calls |-> calls]

RECURSIVE download_github_directory(_, _, _)
RECURSIVE mirror_contents(_, _, _)

\* a mutant of mirror_contents: the loop ends at the first file that is not downloaded
mirror_contents_until_failure(contents, local_path, acc) ==
    IF contents = <<>> \/ acc.raised THEN acc
    ELSE LET item == Head(contents) IN
         CASE item.type = "file" /\ item.download_url ->
                  LET out == download_file_from_github(item.responses,
                                                       Append(local_path, item.name), acc.disk,
                                                       default_max_retries, default_retry_delay)
                      now == MirrorOutcome(acc.count + (IF out.ret THEN 1 ELSE 0),
                                           out.disk, out.raised, acc.calls \cup {"file"})
                  IN  IF out.ret THEN mirror_contents(Tail(contents), local_path, now) ELSE now
           [] item.type = "dir" ->
                  LET sub == download_github_directory(item.listing,
                                                       Append(local_path, item.name), acc.disk)
                  IN  mirror_contents(Tail(contents), local_path,
                                      MirrorOutcome(acc.count + sub.count, sub.disk, sub.raised,
                                                    acc.calls \cup sub.calls))
           [] OTHER -> mirror_contents(Tail(contents), local_path, acc)

\* the loop of lines 508-531 over the rest of contents
mirror_contents(contents, local_path, acc) ==
    IF contents = <<>> \/ acc.raised THEN acc
    ELSE LET item == Head(contents) IN
         CASE item.type = "file" /\ item.download_url ->
                  LET out == download_file_from_github(item.responses,
                                                       Append(local_path, item.name), acc.disk,
                                                       default_max_retries, default_retry_delay)
                  IN  mirror_contents(Tail(contents), local_path,
                                      MirrorOutcome(acc.count + (IF out.ret THEN 1 ELSE 0),
                                                    out.disk, out.raised,
                                                    acc.calls \cup {"file"}))
           [] item.type = "dir" ->
                  LET sub == download_github_directory(item.listing,
                                                       Append(local_path, item.name), acc.disk)
                  IN  mirror_contents(Tail(contents), local_path,
                                      MirrorOutcome(acc.count + sub.count, sub.disk, sub.raised,
                                                    acc.calls \cup sub.calls))
           [] OTHER -> mirror_contents(Tail(contents), local_path, acc)

\* a mutant of download_github_directory: nothing is listed once the local tree
\* holds a file
download_github_directory_fresh_only(listing, local_path, disk) ==
    LET contents == IF listing.ok /\ disk.files = {} THEN listing.entries ELSE <<>>
    IN  IF contents = <<>> THEN MirrorOutcome(0, disk, FALSE, {"listing"})
        ELSE mirror_contents(contents, local_path, MirrorOutcome(0, disk, FALSE, {"listing"}))

\* lines 489-533; get_github_directory_contents (419-446) turns a failed request into []
download_github_directory(listing, local_path, disk) ==
    LET contents == IF listing.ok THEN listing.entries ELSE <<>>
    IN  IF contents = <<>> THEN MirrorOutcome(0, disk, FALSE, {"listing"})
        ELSE mirror_contents(contents, local_path, MirrorOutcome(0, disk, FALSE, {"listing"}))

FetchOutcome(ret, raised, disk, tried) ==
    [ret |-> ret, raised |-> raised, disk |-> disk, tried |-> tried]

\* the loop of lines 642-647 over the rest of ["SKILL.md", "skill.md"]; answers holds
\* the host's answers to the download of each filename
RECURSIVE fetch_manifest(_, _, _, _)
fetch_manifest(answers, skill_dir, disk, tried) ==
    IF answers = <<>> THEN FetchOutcome(FALSE, FALSE, disk, tried)
    ELSE LET out == download_file_from_github(Head(answers), Append(skill_dir, Manifest), disk,
                                              default_max_retries, default_retry_delay)
         IN  IF out.raised THEN FetchOutcome(FALSE, TRUE, out.disk, tried + 1)
             ELSE IF out.ret THEN FetchOutcome(TRUE, FALSE, out.disk, tried + 1)
             ELSE fetch_manifest(Tail(answers), skill_dir, out.disk, tried + 1)

\* lines 625-649
download_skill_md_directly(answers, skill_dir, disk) ==
    fetch_manifest(answers, skill_dir, disk, 0)

\* a mutant of CleanUp: nothing is removed
CleanUp_nothing(disk, skill_dir) == disk

\* lines 613-615 and 621-622: an existing, empty skill_dir is removed
CleanUp(disk, skill_dir) ==
    IF /\ skill_dir \in disk.dirs
       /\ ~\E q \in disk.files \cup disk.dirs :
              Len(q) = Len(skill_dir) + 1 /\ SubSeq(q, 1, Len(skill_dir)) = skill_dir
    THEN [disk EXCEPT !.dirs = @ \ {skill_dir}]
    ELSE disk

(***************************************************************************)
(* What the acquisition runs on: the skills of the list, the remote trees  *)
(* and the host's answers.                                                 *)
(***************************************************************************)
Skill(name, description, githubUrl) ==
    [name |-> name, description |-> description, githubUrl |-> githubUrl]

\* a browse URL parse_github_url accepts, and one it rejects (no tree segment)
GoodUrl == GithubPrefix \o <<"acme", "/", "widgets", "/", "tree", "/", "main", "/", "skills">>
BadUrl == GithubPrefix \o <<"acme", "/", "widgets">>

\* descriptions: "api" is classified (Development, Backend), "dev" (Development, None)
DescApi == <<"a", "p", "i">>
DescDev == <<"d", "e", "v">>

\* two skills named s1 that are classified differently, a skill named like a
\* subcategory, and skills without a usable githubUrl
Skills ==
    { Skill("s1", DescApi, GoodUrl),
      Skill("s1", DescDev, GoodUrl),
      Skill("Backend", DescDev, GoodUrl),
      Skill("s2", <<>>, <<>>),
      Skill("s2", <<>>, BadUrl) }

\* a mutant of UrlInfo: every githubUrl is taken as parsed
UrlInfo_always_ok ==
    [u \in {sk.githubUrl : sk \in Skills} |-> [parse_github_url(u) EXCEPT !.ok = TRUE]]

\* parse_github_url on the githubUrl of each skill, computed once
UrlInfo == [u \in {sk.githubUrl : sk \in Skills} |-> parse_github_url(u)]

\* get_skill_directory on each skill in each mode, computed once
SkillDir == [sk \in Skills, organize \in BOOLEAN |-> get_skill_directory(sk, organize)]

\* the host answers every HTTP attempt of one download the same way
Always(response) == [i \in 1..default_max_retries |-> response]

\* the first attempt fails in transport, the later ones succeed
FailsOnce == [i \in 1..default_max_retries |-> IF i = 1 THEN "request_exception" ELSE "ok"]

\* the remote trees: contents request failing, an empty directory, a manifest alone,
\* no manifest, a manifest that cannot be downloaded, a local write that raises,
\* a manifest beside a subdirectory, a subdirectory whose listing fails
RemoteTrees ==
    { Listing(FALSE, <<>>),
      Listing(TRUE, <<>>),
      Listing(TRUE, <<FileEntry(Manifest, TRUE, FailsOnce)>>),
      Listing(TRUE, <<FileEntry("README.md", TRUE, Always("ok"))>>),
      Listing(TRUE, <<FileEntry(Manifest, TRUE, Always("request_exception")),
                      FileEntry("README.md", FALSE, <<>>)>>),
      Listing(TRUE, <<FileEntry(Manifest, TRUE, Always("os_error"))>>),
      Listing(TRUE, <<FileEntry(Manifest, TRUE, Always("open_error"))>>),
      Listing(TRUE, <<DirEntry("docs", Listing(TRUE, <<FileEntry("guide.md", TRUE, Always("ok"))>>)),
                      FileEntry(Manifest, TRUE, Always("ok"))>>),
      Listing(TRUE, <<DirEntry("docs", Listing(FALSE, <<>>)),
                      FileEntry(Manifest, TRUE, Always("ok"))>>) }

\* the host's answers to the raw fetches of SKILL.md and skill.md
RawAnswers ==
    { <<Always("ok"), Always("ok")>>,
      <<Always("request_exception"), FailsOnce>>,
      <<Always("request_exception"), Always("request_exception")>>,
      <<Always("os_error"), Always("ok")>>,
      <<Always("open_error"), Always("ok")>> }

(***************************************************************************)
(* Two mirrors of one source subtree, each into a destination that does    *)
(* not exist yet.  The subtree is a shape: its entries without the host's  *)
(* answers; each run meets the host's answers of that run.                 *)
(***************************************************************************)
ShapeFile(name, has_url) ==
    [type |-> "file", name |-> name, download_url |-> has_url, children |-> <<>>]

ShapeDir(name, children) ==
    [type |-> "dir", name |-> name, download_url |-> FALSE, children |-> children]

\* an empty directory, a manifest alone, a manifest before a subdirectory, a
\* manifest after a subdirectory
Shapes ==
    { <<>>,
      <<ShapeFile(Manifest, TRUE)>>,
      <<ShapeFile(Manifest, TRUE), ShapeDir("docs", <<ShapeFile("guide.md", TRUE)>>)>>,
      <<ShapeDir("docs", <<ShapeFile("guide.md", TRUE)>>), ShapeFile(Manifest, TRUE)>> }

\* how the host may answer the HTTP attempts of one file download
FileAnswers ==
    {Always("ok"), FailsOnce, Always("request_exception"), Always("os_error")}

\* every way the host may answer the requests for a shape: each contents
\* request fails or succeeds, each file download is answered by FileAnswers
RECURSIVE Answered(_)
RECURSIVE AnsweredEntries(_)
Answered(shape) ==
    {Listing(FALSE, <<>>)} \cup {Listing(TRUE, es) : es \in AnsweredEntries(shape)}

AnsweredEntries(shape) ==
    IF shape = <<>> THEN {<<>>}
    ELSE LET e == Head(shape)
             heads == IF e.type = "file"
                      THEN {FileEntry(e.name, e.download_url, r) : r \in FileAnswers}
                      ELSE {DirEntry(e.name, l) : l \in Answered(e.children)}
         IN  {<<h>> \o rest : h \in heads, rest \in AnsweredEntries(Tail(shape))}

\* the two runs, and the destination of each
Runs == {1, 2}
RunDir(r) == IF r = 1 THEN <<"first">> ELSE <<"second">>

\* downloaded_count = self.download_github_directory(..., local_path=skill_dir, ...)
MirrorRun(r) ==
    /\ m_pc = (IF r = 1 THEN "first" ELSE "second")
    /\ LET out == download_github_directory(m_remote[r], RunDir(r), m_disk) IN
         /\ m_out' = Append(m_out, out)
         /\ m_disk' = out.disk
    /\ m_pc' = (IF r = 1 THEN "second" ELSE "done")
    /\ UNCHANGED <<m_shape, m_remote>>
    /\ UNCHANGED <<parseVars, fileVars, catVars, acqVars, clsVars>>

(***************************************************************************)
(* download_skills_parallel (main thread) and download_skill (pool         *)
(* threads).  A task is one submitted download_skill call:                 *)
(*   item     the position of its skill in skills                          *)
(*   pc       "queued", "mirror", "fallback", "verify", "except",          *)
(*            "rmdir_try", "rmdir_except" (about to call rmdir),           *)
(*            "exists", "verified" (about to take the lock), "locked",     *)
(*            "done"                                                       *)
(*   result   the value download_skill returned                            *)
(*   raised   an exception left download_skill (the future holds it)       *)
(*   trace, mirrored, fetched   history: the phases gone through, what the *)
(*            mirror gave, what the direct fetch was answered and gave     *)
(*   removed  history: the call's rmdir removed its destination            *)
(***************************************************************************)
NoMirror == [done |-> FALSE, count |-> 0, manifest |-> FALSE]
NoFetch == [done |-> FALSE, answers |-> <<>>, ret |-> FALSE, tried |-> 0]

Task(item, pc, skill_dir, downloaded_count, result) ==
    [item |-> item, pc |-> pc, skill_dir |-> skill_dir,
     downloaded_count |-> downloaded_count, result |-> result,
     raised |-> FALSE, trace |-> <<>>, mirrored |-> NoMirror, fetched |-> NoFetch,
     removed |-> FALSE]

\* a mutant of skills_to_download: the registry test is made whatever force is
RECURSIVE skills_to_download_unforced(_, _, _, _)
skills_to_download_unforced(skills, i, registry, force) ==
    IF i > Len(skills) THEN <<>>
    ELSE IF is_already_downloaded(skills[i], registry)
         THEN skills_to_download_unforced(skills, i + 1, registry, force)
         ELSE <<i>> \o skills_to_download_unforced(skills, i + 1, registry, force)

\* the positions of skills the loop of lines 666-670 keeps, in order
RECURSIVE skills_to_download(_, _, _, _)
skills_to_download(skills, i, registry, force) ==
    IF i > Len(skills) THEN <<>>
    ELSE IF is_already_downloaded(skills[i], registry) /\ ~force
         THEN skills_to_download(skills, i + 1, registry, force)
         ELSE <<i>> \o skills_to_download(skills, i + 1, registry, force)

Range(f) == {f[i] : i \in DOMAIN f}

Counts(success, total) == [success |-> success, total |-> total]

\* lines 662-693: the filter loop, then either the early return or the submissions
DownloadSkillsParallel ==
    /\ a_pc = "ready"
    /\ LET kept == skills_to_download(a_skills, 1, a_downloaded_skills, a_force) IN
         /\ a_skipped' = (1..Len(a_skills)) \ Range(kept)
         /\ IF kept = <<>>
            THEN /\ a_ret' = Counts(0, Len(a_skills))
                 /\ a_pc' = "returned"
                 /\ a_tasks' = <<>>
            ELSE /\ a_tasks' = [t \in 1..Len(kept) |-> Task(kept[t], "queued", <<>>, 0, FALSE)]
                 /\ a_pc' = "pool"
                 /\ a_ret' = a_ret
    /\ UNCHANGED <<a_organize, a_force, a_workers, a_disk, a_downloaded_skills, a_lock,
                   a_skills, a_collected, a_success_count, a_disk0, a_registry0, a_calls>>
    /\ UNCHANGED <<parseVars, fileVars, catVars, clsVars, mirVars>>

\* a mutant of Running: the calls still in the queue are taken to occupy a thread
Running_with_queued == {u \in 1..Len(a_tasks) : a_tasks[u].pc # "done"}

\* the submitted calls a pool thread is running
Running == {u \in 1..Len(a_tasks) : a_tasks[u].pc \notin {"queued", "done"}}

\* a mutant of PoolHasIdleThread: the pool starts a thread for every call
PoolHasIdleThread_unbounded(running, workers) == TRUE

\* ThreadPoolExecutor(max_workers=self.workers): a queued call starts only on a
\* thread that is not running another call
PoolHasIdleThread(running, workers) == Cardinality(running) < workers

\* a mutant of StartSkill: a call goes on to the mirror whatever its githubUrl is
StartSkill_unlocated(t) ==
    /\ a_pc = "pool"
    /\ t \in DOMAIN a_tasks
    /\ a_tasks[t].pc = "queued"
    /\ \A u \in 1..(t - 1) : a_tasks[u].pc # "queued"
    /\ PoolHasIdleThread(Running, a_workers)
    /\ LET skill == a_skills[a_tasks[t].item]
           skill_dir == SkillDir[skill, a_organize]
       IN  a_tasks' = [a_tasks EXCEPT ![t] =
               IF HasManifest(a_disk, skill_dir) /\ ~a_force
               THEN [@ EXCEPT !.pc = "exists", !.skill_dir = skill_dir,
                              !.trace = <<"Locating", "Present">>]
               ELSE [@ EXCEPT !.pc = "mirror", !.skill_dir = skill_dir,
                              !.trace = <<"Locating", "Mirroring">>]]
    /\ UNCHANGED <<a_pc, a_organize, a_force, a_workers, a_disk, a_downloaded_skills, a_lock,
                   a_skills, a_collected, a_success_count, a_ret,
                   a_disk0, a_registry0, a_skipped, a_calls>>
    /\ UNCHANGED <<parseVars, fileVars, catVars, clsVars, mirVars>>

\* a pool thread takes the next queued call; lines 550-587 of download_skill
StartSkill(t) ==
    /\ a_pc = "pool"
    /\ t \in DOMAIN a_tasks
    /\ a_tasks[t].pc = "queued"
    /\ \A u \in 1..(t - 1) : a_tasks[u].pc # "queued"
    /\ PoolHasIdleThread(Running, a_workers)
    /\ LET skill == a_skills[a_tasks[t].item]
           url_info == UrlInfo[skill.githubUrl]
           skill_dir == SkillDir[skill, a_organize]
       IN  a_tasks' = [a_tasks EXCEPT ![t] =
               IF skill.githubUrl = <<>> \/ ~url_info.ok
               THEN [@ EXCEPT !.pc = "done", !.result = FALSE, !.trace = <<"Locating">>]
               ELSE IF HasManifest(a_disk, skill_dir) /\ ~a_force
               THEN [@ EXCEPT !.pc = "exists", !.skill_dir = skill_dir,
                              !.trace = <<"Locating", "Present">>]
               ELSE [@ EXCEPT !.pc = "mirror", !.skill_dir = skill_dir,
                              !.trace = <<"Locating", "Mirroring">>]]
    /\ UNCHANGED <<a_pc, a_organize, a_force, a_workers, a_disk, a_downloaded_skills, a_lock,
                   a_skills, a_collected, a_success_count, a_ret,
                   a_disk0, a_registry0, a_skipped, a_calls>>
    /\ UNCHANGED <<parseVars, fileVars, catVars, clsVars, mirVars>>

\* lines 590-596 and the test of line 599
MirrorDirectory(t) ==
    /\ a_pc = "pool"
    /\ t \in DOMAIN a_tasks
    /\ a_tasks[t].pc = "mirror"
    /\ \E remote \in RemoteTrees :
         LET out == download_github_directory(remote, a_tasks[t].skill_dir, a_disk)
             manifest == HasManifest(out.disk, a_tasks[t].skill_dir)
         IN
           /\ a_disk' = out.disk
           /\ a_calls' = [a_calls EXCEPT ![a_tasks[t].item] = @ \cup out.calls]
           /\ a_tasks' = [a_tasks EXCEPT ![t] =
                  [@ EXCEPT !.downloaded_count = out.count,
                            !.mirrored = IF out.raised THEN NoMirror
                                         ELSE [done |-> TRUE, count |-> out.count,
                                               manifest |-> manifest],
                            !.pc = IF out.raised THEN "except"
                                   ELSE IF out.count = 0 \/ ~manifest THEN "fallback"
                                   ELSE "verify"]]
    /\ UNCHANGED <<a_pc, a_organize, a_force, a_workers, a_downloaded_skills, a_lock,
                   a_skills, a_collected, a_success_count, a_ret,
                   a_disk0, a_registry0, a_skipped>>
    /\ UNCHANGED <<parseVars, fileVars, catVars, clsVars, mirVars>>

\* lines 599-602
DirectFallback(t) ==
    /\ a_pc = "pool"
    /\ t \in DOMAIN a_tasks
    /\ a_tasks[t].pc = "fallback"
    /\ \E answers \in RawAnswers :
         LET out == download_skill_md_directly(answers, a_tasks[t].skill_dir, a_disk) IN
           /\ a_disk' = out.disk
           /\ a_calls' = [a_calls EXCEPT ![a_tasks[t].item] = @ \cup {"fallback"}]
           /\ a_tasks' = [a_tasks EXCEPT ![t] =
                  [@ EXCEPT !.downloaded_count = IF out.ret THEN 1 ELSE @,
                            !.trace = Append(@, "Fallback"),
                            !.fetched = [done |-> TRUE, answers |-> answers,
                                         ret |-> out.ret, tried |-> out.tried],
                            !.pc = IF out.raised THEN "except" ELSE "verify"]]
    /\ UNCHANGED <<a_pc, a_organize, a_force, a_workers, a_downloaded_skills, a_lock,
                   a_skills, a_collected, a_success_count, a_ret,
                   a_disk0, a_registry0, a_skipped>>
    /\ UNCHANGED <<parseVars, fileVars, catVars, clsVars, mirVars>>

\* skill_dir.exists() and not any(skill_dir.iterdir())
IsEmptyDir(disk, skill_dir) == CleanUp(disk, skill_dir) # disk

\* lines 604-614: the test of line 604, up to the lock of line 608 or the test of line 614
VerifyManifest(t) ==
    /\ a_pc = "pool"
    /\ t \in DOMAIN a_tasks
    /\ a_tasks[t].pc = "verify"
    /\ a_tasks' = [a_tasks EXCEPT ![t] =
           [@ EXCEPT !.trace = Append(@, "Verifying"),
                     !.pc = IF a_tasks[t].downloaded_count > 0
                               /\ HasManifest(a_disk, a_tasks[t].skill_dir)
                            THEN "verified"
                            ELSE IF IsEmptyDir(a_disk, a_tasks[t].skill_dir) THEN "rmdir_try"
                            ELSE "done"]]
    /\ UNCHANGED <<a_pc, a_organize, a_force, a_workers, a_disk, a_downloaded_skills, a_lock,
                   a_skills, a_collected, a_success_count, a_ret,
                   a_disk0, a_registry0, a_skipped, a_calls>>
    /\ UNCHANGED <<parseVars, fileVars, catVars, clsVars, mirVars>>

\* lines 618-621: the exception is caught; the test of line 621
HandleException(t) ==
    /\ a_pc = "pool"
    /\ t \in DOMAIN a_tasks
    /\ a_tasks[t].pc = "except"
    /\ a_tasks' = [a_tasks EXCEPT ![t].pc =
           IF IsEmptyDir(a_disk, a_tasks[t].skill_dir) THEN "rmdir_except" ELSE "done"]
    /\ UNCHANGED <<a_pc, a_organize, a_force, a_workers, a_disk, a_downloaded_skills, a_lock,
                   a_skills, a_collected, a_success_count, a_ret,
                   a_disk0, a_registry0, a_skipped, a_calls>>
    /\ UNCHANGED <<parseVars, fileVars, catVars, clsVars, mirVars>>

\* skill_dir.rmdir() of line 615 (inside the try) and of line 622 (inside the
\* handler): it raises when the directory is gone or no longer empty
RemoveEmptyDir(t) ==
    /\ a_pc = "pool"
    /\ t \in DOMAIN a_tasks
    /\ a_tasks[t].pc \in {"rmdir_try", "rmdir_except"}
    /\ IF IsEmptyDir(a_disk, a_tasks[t].skill_dir)
       THEN /\ a_disk' = CleanUp(a_disk, a_tasks[t].skill_dir)
            /\ a_tasks' = [a_tasks EXCEPT ![t] = [@ EXCEPT !.pc = "done", !.removed = TRUE]]
       ELSE /\ a_disk' = a_disk
            /\ a_tasks' = [a_tasks EXCEPT ![t] =
                   IF @.pc = "rmdir_try" THEN [@ EXCEPT !.pc = "except"]
                   ELSE [@ EXCEPT !.pc = "done", !.raised = TRUE]]
    /\ UNCHANGED <<a_pc, a_organize, a_force, a_workers, a_downloaded_skills, a_lock,
                   a_skills, a_collected, a_success_count, a_ret,
                   a_disk0, a_registry0, a_skipped, a_calls>>
    /\ UNCHANGED <<parseVars, fileVars, catVars, clsVars, mirVars>>

\* a mutant of registry_add: the registry is replaced by the new name
registry_add_only(registry, name) == {name}

\* self._downloaded_skills.add(name)
registry_add(registry, name) == registry \cup {name}

\* a mutant of LockIsFree: the lock is handed out while it is held
LockIsFree_always(lock) == TRUE

\* threading.Lock: it is entered only while nobody holds it
LockIsFree(lock) == lock = 0

\* `with self._lock:` of lines 576 and 608 is entered
LockRegistry(t) ==
    /\ a_pc = "pool"
    /\ t \in DOMAIN a_tasks
    /\ a_tasks[t].pc \in {"exists", "verified"}
    /\ LockIsFree(a_lock)
    /\ a_lock' = t
    /\ a_tasks' = [a_tasks EXCEPT ![t].pc = "locked"]
    /\ UNCHANGED <<a_pc, a_organize, a_force, a_workers, a_disk, a_downloaded_skills,
                   a_skills, a_collected, a_success_count, a_ret,
                   a_disk0, a_registry0, a_skipped, a_calls>>
    /\ UNCHANGED <<parseVars, fileVars, catVars, clsVars, mirVars>>

\* lines 577-578 and 609-610: the name is added, the lock released, True returned
AddAndUnlock(t) ==
    /\ a_pc = "pool"
    /\ t \in DOMAIN a_tasks
    /\ a_tasks[t].pc = "locked"
    /\ a_lock = t
    /\ a_downloaded_skills' = registry_add(a_downloaded_skills, a_skills[a_tasks[t].item].name)
    /\ a_lock' = 0
    /\ a_tasks' = [a_tasks EXCEPT ![t].pc = "done", ![t].result = TRUE]
    /\ UNCHANGED <<a_pc, a_organize, a_force, a_workers, a_disk,
                   a_skills, a_collected, a_success_count, a_ret,
                   a_disk0, a_registry0, a_skipped, a_calls>>
    /\ UNCHANGED <<parseVars, fileVars, catVars, clsVars, mirVars>>

\* a mutant of future_result: a call that raised counts as a success
future_result_raised_counts(task) == task.raised \/ task.result

\* lines 697-699: `if future.result()` is taken only when download_skill returned
\* True; when future.result() raises, the handler of line 699 counts nothing
future_result(task) == ~task.raised /\ task.result

\* one turn of the loop of lines 696-703 over as_completed: future.result() gives
\* the returned value or raises what left download_skill, which line 699 catches
CollectResult(t) ==
    /\ a_pc = "pool"
    /\ t \in DOMAIN a_tasks
    /\ a_tasks[t].pc = "done"
    /\ t \notin a_collected
    /\ a_collected' = a_collected \cup {t}
    /\ a_success_count' = a_success_count + (IF future_result(a_tasks[t]) THEN 1 ELSE 0)
    /\ UNCHANGED <<a_pc, a_organize, a_force, a_workers, a_disk, a_downloaded_skills, a_lock,
                   a_skills, a_tasks, a_ret, a_disk0, a_registry0, a_skipped, a_calls>>
    /\ UNCHANGED <<parseVars, fileVars, catVars, clsVars, mirVars>>

\* line 705, with total_count of line 685
ReturnCounts ==
    /\ a_pc = "pool"
    /\ a_collected = 1..Len(a_tasks)
    /\ a_ret' = Counts(a_success_count, Len(a_tasks))
    /\ a_pc' = "returned"
    /\ UNCHANGED <<a_organize, a_force, a_workers, a_disk, a_downloaded_skills, a_lock,
                   a_skills, a_tasks, a_collected, a_success_count,
                   a_disk0, a_registry0, a_skipped, a_calls>>
    /\ UNCHANGED <<parseVars, fileVars, catVars, clsVars, mirVars>>

(***************************************************************************)
(* Specifications: one per component, the other components at rest.        *)
(***************************************************************************)
NoCap == [given |-> FALSE, val |-> 0]

ClassifyIdle ==
    /\ k_pc = "idle"
    /\ k_words = <<>>
    /\ k_description = <<>>
    /\ k_result = Classification("Uncategorized", None)

MirrorIdle ==
    /\ m_pc = "idle"
    /\ m_shape = <<>>
    /\ m_remote = <<>>
    /\ m_disk = EmptyDisk
    /\ m_out = <<>>

AcquireIdle ==
    /\ a_pc = "idle"
    /\ a_organize = FALSE
    /\ a_force = FALSE
    /\ a_workers = 1
    /\ a_disk = EmptyDisk
    /\ a_downloaded_skills = {}
    /\ a_lock = 0
    /\ a_skills = <<>>
    /\ a_tasks = <<>>
    /\ a_collected = {}
    /\ a_success_count = 0
    /\ a_ret = Counts(0, 0)
    /\ a_disk0 = EmptyDisk
    /\ a_registry0 = {}
    /\ a_skipped = {}
    /\ a_calls = <<>>

CatalogIdle ==
    /\ c_pc = "idle"
    /\ c_mode = "top"
    /\ c_n = 0
    /\ c_min_stars = 0
    /\ c_max_skills = NoCap
    /\ c_catalog = <<>>
    /\ c_srvcap = limit
    /\ c_page = 1
    /\ c_all_skills = <<>>
    /\ c_total_downloaded = 0
    /\ c_served = <<>>
    /\ c_result = <<>>
    /\ c_raised = FALSE

FileIdle ==
    /\ f_pc = "idle"
    /\ f_max_retries = 0
    /\ f_retry_delay = 0
    /\ f_responses = <<>>
    /\ f_disk = EmptyDisk
    /\ f_out = NoFileOutcome

ParseIdle ==
    /\ p_pc = "idle"
    /\ p_scheme = "https:"
    /\ p_host = "github.com"
    /\ p_segs = <<>>
    /\ p_trail = 0
    /\ p_url = <<>>
    /\ p_result = NoUrlInfo

\* the caller holds a source URL: an absent one, or a browse URL
InitParse ==
    /\ p_pc = "call"
    /\ p_scheme \in Schemes
    /\ p_host \in Hosts
    /\ p_segs \in SegLists
    /\ p_trail \in 0..MaxTrail
    /\ p_url \in {BuildUrl(p_scheme, p_host, p_segs, p_trail), <<>>}
    /\ p_result = NoUrlInfo
    /\ FileIdle
    /\ CatalogIdle
    /\ AcquireIdle
    /\ ClassifyIdle
    /\ MirrorIdle

NextParse == ParseUrl

SpecParse == InitParse /\ [][NextParse]_vars

\* the local trees a single download starts from: nothing there, the file
\* already there, and a file where the parent directory should be
FileDisks ==
    { EmptyDisk,
      [files |-> {FileOutputPath}, dirs |-> {<<>>, <<"s1">>}],
      [files |-> {<<"s1">>}, dirs |-> {<<>>}] }

InitFile ==
    /\ f_pc = "call"
    /\ f_max_retries \in 0..MaxRetries
    /\ f_retry_delay \in 0..MaxDelay
    /\ f_responses \in [1..MaxRetries -> Responses]
    /\ f_disk \in FileDisks
    /\ f_out = NoFileOutcome
    /\ ParseIdle
    /\ CatalogIdle
    /\ AcquireIdle
    /\ ClassifyIdle
    /\ MirrorIdle

NextFile == DownloadFile

SpecFile == InitFile /\ [][NextFile]_vars

\* the catalog of the end-to-end example of the specification
ExampleCatalog == <<500, 400, 300, 250, 200, 150, 90, 10>>

\* a marketplace serves full pages of 50, or caps its pages lower
SrvCaps == (1..MaxSrvCap) \cup {limit}

\* any traversal of a generated catalog, and runTop(5, minScore=100) of the example
InitCatalog ==
    /\ c_pc = "start"
    /\ c_srvcap \in SrvCaps
    /\ \/ /\ c_catalog \in SeqsUpTo(0..MaxScore, MaxCatalog)
          /\ c_min_stars \in 0..MaxScore
          /\ \/ c_mode = "top" /\ c_n \in 0..MaxTopN /\ c_max_skills = NoCap
             \/ /\ c_mode = "all" /\ c_n = 0
                /\ c_max_skills \in {NoCap} \cup {[given |-> TRUE, val |-> v] : v \in 0..MaxCap}
       \/ /\ c_catalog = ExampleCatalog
          /\ c_min_stars = 100
          /\ c_mode = "top" /\ c_n = 5 /\ c_max_skills = NoCap
    /\ c_page = 1
    /\ c_all_skills = <<>>
    /\ c_total_downloaded = 0
    /\ c_served = <<>>
    /\ c_result = <<>>
    /\ c_raised = FALSE
    /\ ParseIdle
    /\ FileIdle
    /\ AcquireIdle
    /\ ClassifyIdle
    /\ MirrorIdle

NextCatalog ==
    \/ RunTop
    \/ GetTopSkillsPage
    \/ GetTopSkillsReturn
    \/ GetAllSkillsCall
    \/ GetAllSkillsPage
    \/ GetAllSkillsReturn

SpecCatalog == InitCatalog /\ [][NextCatalog]_vars

\* the local tree that holds a manifest in each directory of S
DiskWith(S) ==
    [files |-> {Append(d, Manifest) : d \in S},
     dirs  |-> {<<>>} \cup UNION {Parents(Append(d, Manifest)) : d \in S}]

\* the directories earlier runs may have filled, flat and classified
FlatDirs == {<<"s1">>, <<"Backend">>}
ClassifiedDirs ==
    {<<"Development", "s1">>, <<"Development", "Backend", "s1">>, <<"Development", "Backend">>}

\* the state after construction (lines 152-170): the registry holds what the scan
\* of SKILLS_DIR found; the caller is about to hand a list to download_skills_parallel
Init ==
    /\ a_pc = "ready"
    /\ a_organize \in BOOLEAN
    /\ a_force \in BOOLEAN
    /\ a_workers \in 1..MaxWorkers
    /\ a_disk \in {DiskWith(S) : S \in SUBSET (IF a_organize THEN ClassifiedDirs ELSE FlatDirs)}
    /\ a_downloaded_skills = load_downloaded_skills(a_disk, a_organize)
    /\ a_lock = 0
    /\ a_skills \in SeqsUpTo(Skills, MaxSkills)
    /\ a_tasks = <<>>
    /\ a_collected = {}
    /\ a_success_count = 0
    /\ a_ret = Counts(0, 0)
    /\ a_disk0 = a_disk
    /\ a_registry0 = a_downloaded_skills
    /\ a_skipped = {}
    /\ a_calls = [i \in 1..Len(a_skills) |-> {}]
    /\ ParseIdle
    /\ FileIdle
    /\ CatalogIdle
    /\ ClassifyIdle
    /\ MirrorIdle

\* the futures a list of at most MaxSkills skills can give rise to
TaskIds == 1..MaxSkills

Next ==
    \/ DownloadSkillsParallel
    \/ \E t \in TaskIds : StartSkill(t)
    \/ \E t \in TaskIds : MirrorDirectory(t)
    \/ \E t \in TaskIds : DirectFallback(t)
    \/ \E t \in TaskIds : VerifyManifest(t)
    \/ \E t \in TaskIds : HandleException(t)
    \/ \E t \in TaskIds : RemoveEmptyDir(t)
    \/ \E t \in TaskIds : LockRegistry(t)
    \/ \E t \in TaskIds : AddAndUnlock(t)
    \/ \E t \in TaskIds : CollectResult(t)
    \/ ReturnCounts

Spec == Init /\ [][Next]_vars

\* the skills of the runs whose termination is checked: one with a usable
\* githubUrl, one without
LiveSkills == {Skill("s1", DescApi, GoodUrl), Skill("s2", <<>>, <<>>)}

InitLive == Init /\ a_skills \in SeqsUpTo(LiveSkills, MaxSkills)

\* every thread that can take a step eventually takes one: the pool threads and
\* the main thread are scheduled, and every network call returns
SpecLive == InitLive /\ [][Next]_vars /\ WF_vars(Next)

\* a caller holds a description of at most MaxWords words
InitClassify ==
    /\ k_pc = "call"
    /\ k_words \in SeqsUpTo(Words, MaxWords)
    /\ k_description = JoinWords(k_words)
    /\ k_result = Classification("Uncategorized", None)
    /\ ParseIdle
    /\ FileIdle
    /\ CatalogIdle
    /\ AcquireIdle
    /\ MirrorIdle

NextClassify == Categorize

SpecClassify == InitClassify /\ [][NextClassify]_vars

\* a source subtree is about to be mirrored twice; the host answers each run its own way
InitMirror ==
    /\ m_pc = "first"
    /\ m_shape \in Shapes
    /\ m_remote \in Answered(m_shape) \X Answered(m_shape)
    /\ m_disk = EmptyDisk
    /\ m_out = <<>>
    /\ ParseIdle
    /\ FileIdle
    /\ CatalogIdle
    /\ AcquireIdle
    /\ ClassifyIdle

NextMirror == \E r \in Runs : MirrorRun(r)

SpecMirror == InitMirror /\ [][NextMirror]_vars

(***************************************************************************)
(* Claims about the Source Locator, checked under SpecParse.               *)
(***************************************************************************)
\* the remaining segments joined by "/", written without join
ExpectedPath(segs) ==
    IF Len(segs) > 4 THEN Tail(PathText(Drop(segs, 4))) ELSE <<>>

ParsedBrowseUrl == p_pc = "done" /\ p_url # <<>>

\* C9: every browse URL with fewer than four path segments after the host, or
\* whose third path segment is not the token tree, is rejected (parse returns
\* absent), whatever the host is.
C9_RejectsWithoutTree ==
    (ParsedBrowseUrl /\ (Len(p_segs) < 4 \/ p_segs[3] # <<"tree">>))
        => p_result = NoUrlInfo

AllAttemptsFail ==
    \A k \in 1..f_max_retries : f_responses[k] = "request_exception"

\* the download succeeds on attempt k: k - 1 transport failures, then a good
\* response that is written
SucceedsOnAttempt(k) ==
    /\ f_responses[k] = "ok"
    /\ \A j \in 1..(k - 1) : f_responses[j] = "request_exception"
    /\ CanWrite(f_disk, FileOutputPath)

\* C4: a file download whose every attempt fails with a transport error makes
\* exactly maxRetries HTTP attempts, then returns failure without raising and
\* without writing the output file; one that succeeds on attempt k <= maxRetries
\* makes exactly k attempts.
C4_RetryBound ==
    f_pc = "done" =>
        /\ AllAttemptsFail =>
               /\ f_out.attempts = f_max_retries
               /\ f_out.ret = FALSE
               /\ f_out.raised = FALSE
               /\ f_out.disk = f_disk
        /\ \A k \in 1..f_max_retries :
               SucceedsOnAttempt(k) =>
                   /\ f_out.attempts = k
                   /\ f_out.ret = TRUE
                   /\ f_out.raised = FALSE
                   /\ FileOutputPath \in f_out.disk.files

\* a download configured for several attempts has failed on every one of them
\* and has given up after the last
C4_Witness ==
    /\ f_pc = "done"
    /\ f_max_retries >= 2
    /\ AllAttemptsFail
    /\ f_out.attempts = f_max_retries
    /\ f_out.ret = FALSE
    /\ FileOutputPath \notin f_out.disk.files

(***************************************************************************)
(* Claims about the catalog traversals, checked under SpecCatalog.         *)
(***************************************************************************)
\* the items of the first k pages served, in serving order
RECURSIVE ServedItems(_)
ServedItems(k) ==
    IF k = 0 THEN <<>> ELSE ServedItems(k - 1) \o c_served[k].response.skills

\* the items of a list with at least m stars, in order
RECURSIVE KeepAtLeast(_, _)
KeepAtLeast(items, m) ==
    IF items = <<>> THEN <<>>
    ELSE (IF items[1] >= m THEN <<items[1]>> ELSE <<>>) \o KeepAtLeast(Tail(items), m)

\* the items with at least c_min_stars stars of the first k pages served
KeptItems(k) == KeepAtLeast(ServedItems(k), c_min_stars)

ServedOk(k) == c_served[k].response.kind = "ok"

\* page k ends a traversal by itself: it is empty or carries no continuation flag
StopPage(k) ==
    c_served[k].response.skills = <<>> \/ ~c_served[k].response.hasNext

PagesInOrder == \A k \in 1..Len(c_served) : c_served[k].page = k

\* the marketplace answered every request, with hasNext set exactly on the
\* pages that are not the last of the catalog
ConformingMarketplace ==
    \A k \in 1..Len(c_served) :
        /\ ServedOk(k)
        /\ c_served[k].response.hasNext = (k * PageSize < Len(c_catalog))

TopDone == c_pc = "done" /\ c_mode = "top"
AllDone == c_pc = "done" /\ c_mode = "all"

ExampleRun ==
    /\ TopDone /\ c_n = 5 /\ c_min_stars = 100
    /\ c_catalog = ExampleCatalog
    /\ ConformingMarketplace

\* C5 as stated: runTop(5, minScore=100) against the catalog of 8 items with
\* scores [500,400,300,250,200,150,90,10] yields exactly the 4 items
\* [500,400,300,250].
C5_ExampleYieldsFour == ExampleRun => c_result = <<500, 400, 300, 250>>

\* C5 amended: that run yields exactly the 5 items [500,400,300,250,200]: the
\* first five served, all of which have at least 100 stars.
C5_ExampleYieldsFive == ExampleRun => c_result = <<500, 400, 300, 250, 200>>

\* the example run has returned, the marketplace having served its 8 items on
\* one page of 50
C5_Witness ==
    /\ ExampleRun
    /\ c_srvcap = limit /\ Len(c_served) = 1
    /\ Len(c_served[1].response.skills) = 8
    /\ Len(c_result) = 5

\* C6: get_top_skills returns exactly the items with score >= minScore among
\* the first min(N, items served until an empty page or a page without
\* continuation flag) items, in serving order; at most N items; no page is
\* requested once N items are accumulated, nor after a page that ends the
\* traversal.
C6_TopFetchThenFilter ==
    TopDone =>
        /\ c_result = KeepAtLeast(Take(ServedItems(Len(c_served)), c_n), c_min_stars)
        /\ Len(c_result) <= c_n
        /\ PagesInOrder
        /\ \A k \in 1..Len(c_served) : Len(ServedItems(k - 1)) < c_n
        /\ \A k \in 1..(Len(c_served) - 1) : ~StopPage(k)

\* get_top_skills has returned fewer than N items from a catalog that holds N
\* or more items with at least minScore stars
C6_Witness ==
    /\ TopDone
    /\ c_n >= 2
    /\ Len(c_served) >= 2
    /\ Len(c_result) < c_n
    /\ Len(KeepAtLeast(c_catalog, c_min_stars)) >= c_n

\* the cap of get_all_skills is reached once k pages are in
CapReached(k) == c_max_skills.given /\ Len(KeptItems(k)) >= c_max_skills.val

\* C7 as stated: get_all_skills requests pages 1, 2, 3, ... in order, page k+1
\* only if page k had the continuation flag and the cap was not reached, and
\* returns exactly the items with score >= minScore of the pages it requested.
C7_AllReturnsEveryKeptItem ==
    AllDone =>
        /\ PagesInOrder
        /\ \A k \in 1..(Len(c_served) - 1) : ~StopPage(k) /\ ~CapReached(k)
        /\ c_result = KeptItems(Len(c_served))

\* a cap that limits: given and not 0 (`if max_skills and ...`)
LimitingCap == c_max_skills.given /\ c_max_skills.val > 0

\* C7 amended: get_all_skills requests pages 1, 2, 3, ... in order, page k+1
\* only if page k was not empty, had the continuation flag and a cap of 1 or
\* more was not reached by the filtered count; it stops only for one of these
\* reasons (a page whose items are all filtered out does not stop it); it
\* returns the items with score >= minScore of the pages it requested, in page
\* order, cut to the first maxItems of them when a cap maxItems >= 1 is given.
C7_AllFiltersPerPage ==
    AllDone =>
        /\ PagesInOrder
        /\ \A k \in 1..(Len(c_served) - 1) :
               ~StopPage(k) /\ ~(LimitingCap /\ CapReached(k))
        /\ Len(c_served) >= 1
        /\ StopPage(Len(c_served)) \/ (LimitingCap /\ CapReached(Len(c_served)))
        /\ c_result = IF LimitingCap
                      THEN Take(KeptItems(Len(c_served)), c_max_skills.val)
                      ELSE KeptItems(Len(c_served))

\* get_all_skills has returned items of a page requested after a page that had
\* items, none of which passed the filter
C7_Witness ==
    /\ AllDone
    /\ c_result # <<>>
    /\ \E k \in 1..(Len(c_served) - 1) :
          /\ c_served[k].response.skills # <<>>
          /\ KeepAtLeast(c_served[k].response.skills, c_min_stars) = <<>>

\* C8: a failed request for page k is not raised: the Catalog Client returns no
\* items and an empty pagination state, the traversal ends there without a
\* further request and returns the items of pages 1..k-1 after its filter.
C8_FailureEndsTraversal ==
    \A k \in 1..Len(c_served) :
        ~ServedOk(k) =>
            /\ search_skills(c_served[k].response).skills = <<>>
            /\ search_skills(c_served[k].response).pagination = EmptyDict
            /\ c_raised = FALSE
            /\ k = Len(c_served)
            /\ c_pc \in {"after_loop", "done"}
            /\ c_all_skills = IF c_mode = "all" \/ c_pc = "done"
                              THEN KeptItems(k - 1) ELSE ServedItems(k - 1)
            /\ c_pc = "done" => c_result = KeptItems(k - 1)

\* a traversal has returned the items of its first page after the request for
\* the second page failed
C8_Witness ==
    /\ c_pc = "done"
    /\ Len(c_served) = 2
    /\ ServedOk(1) /\ ~ServedOk(2)
    /\ c_result # <<>>
    /\ c_result = KeptItems(1)

(***************************************************************************)
(* Claims about the acquisition, checked under Spec.                       *)
(***************************************************************************)
\* the computed destination of the skill at position i of skills
Destination(i) == get_skill_directory(a_skills[i], a_organize)

\* the positions whose manifest was at the computed destination when
\* download_skills_parallel was called
ManifestAtCall == {i \in 1..Len(a_skills) : HasManifest(a_disk0, Destination(i))}

\* C1: resume correctness.  After a call with force = false, no network call
\* (listing, file download, fallback fetch) was made for any skill whose SKILL.md
\* was at its computed destination when the call was made, and no such skill is
\* in the attempted count that was returned.
C1_ResumeCorrectness ==
    (a_pc = "returned" /\ ~a_force) =>
        /\ \A i \in ManifestAtCall : a_calls[i] = {}
        /\ a_ret.total <= Len(a_skills) - Cardinality(ManifestAtCall)

\* C2: the manifest at the computed destination is the sole resumability signal.
\* With force = false, a skill is skipped by download_skills_parallel only if
\* SKILL.md was directly under its computed destination, in flat mode and in
\* classified mode, whatever else is on disk.
C2_ManifestIsSoleSignal ==
    (a_pc \in {"pool", "returned"} /\ ~a_force) =>
        \A i \in a_skipped : HasManifest(a_disk0, Destination(i))

\* the positions whose name was not in the registry when the call was made
NotAcquiredAtCall == {i \in 1..Len(a_skills) : a_skills[i].name \notin a_registry0}

\* C3: concurrency safety of the counts.  For every list, worker count and
\* interleaving, a call with force = false returns an attempted count equal to
\* the number of skills of the list that were not already acquired when the call
\* was made (0 when every skill was already acquired).
C3_AttemptedIsUnacquired ==
    (a_pc = "returned" /\ ~a_force) =>
        a_ret.total = Cardinality(NotAcquiredAtCall)

(***************************************************************************)
(* Claims about the Classifier, checked under SpecClassify.                *)
(***************************************************************************)
\* the keyword occurs in the text, compared character by character
Occurs(keyword, text) ==
    \E i \in 1..Len(text) :
        /\ i + Len(keyword) - 1 <= Len(text)
        /\ \A j \in 1..Len(keyword) : text[i + j - 1] = keyword[j]

\* subcategory j of category i has a keyword occurring in the text
SubMatches(i, j, text) ==
    \E k \in DOMAIN CATEGORIES[i].subcategories[j].keywords :
        Occurs(CATEGORIES[i].subcategories[j].keywords[k], text)

\* category i has a top-level keyword occurring in the text
TopMatches(i, text) ==
    \E k \in DOMAIN CATEGORIES[i].keywords : Occurs(CATEGORIES[i].keywords[k], text)

\* (i, j) comes before (i2, j2) in table declaration order
Before(i, j, i2, j2) == i < i2 \/ (i = i2 /\ j < j2)

\* the result is the first subcategory match of the text in table order, or, when
\* no subcategory matches, the first top-level match, or else Uncategorized
FirstMatchOf(result, text) ==
    \/ \E i \in DOMAIN CATEGORIES : \E j \in DOMAIN CATEGORIES[i].subcategories :
         /\ SubMatches(i, j, text)
         /\ \A i2 \in DOMAIN CATEGORIES : \A j2 \in DOMAIN CATEGORIES[i2].subcategories :
                Before(i2, j2, i, j) => ~SubMatches(i2, j2, text)
         /\ result = Classification(CATEGORIES[i].name, CATEGORIES[i].subcategories[j].name)
    \/ /\ \A i \in DOMAIN CATEGORIES : \A j \in DOMAIN CATEGORIES[i].subcategories :
              ~SubMatches(i, j, text)
       /\ \/ \E i \in DOMAIN CATEGORIES :
               /\ TopMatches(i, text)
               /\ \A i2 \in 1..(i - 1) : ~TopMatches(i2, text)
               /\ result = Classification(CATEGORIES[i].name, None)
          \/ /\ \A i \in DOMAIN CATEGORIES : ~TopMatches(i, text)
             /\ result = Classification("Uncategorized", None)

\* the position of a category in the table
CategoryIndex(name) == CHOOSE i \in DOMAIN CATEGORIES : CATEGORIES[i].name = name

\* the description holds a Development subcategory keyword as the table lists it
HasDevelopmentSubKeyword(text) ==
    \E j \in DOMAIN CATEGORIES[CategoryIndex("Development")].subcategories :
        SubMatches(CategoryIndex("Development"), j, text)

\* C11: classifier precedence.  categorize returns the first (category,
\* subcategory) in table order whose subcategory keyword occurs in the lower-cased
\* description, and the first top-level match only when no subcategory matches;
\* hence a description that holds a Development subcategory keyword as listed in
\* the table and a Security top-level keyword is put in a Development subcategory,
\* and "backend api server" is put in (Development, Backend).
C11_ClassifierPrecedence ==
    k_pc = "done" =>
        /\ FirstMatchOf(k_result, lower(k_description))
        /\ (/\ HasDevelopmentSubKeyword(k_description)
            /\ TopMatches(CategoryIndex("Security"), k_description))
               => (k_result.category = "Development" /\ k_result.subcategory # None)
        /\ k_description = JoinWords(<<<<"b", "a", "c", "k", "e", "n", "d">>, <<"a", "p", "i">>, <<"s", "e", "r", "v", "e", "r">>>>)
               => k_result = Classification("Development", "Backend")

(***************************************************************************)
(* Claims about the Tree Mirror, checked under SpecMirror.                 *)
(***************************************************************************)
\* the files under directory d, named relative to d
FilesUnder(disk, d) ==
    {SubSeq(f, Len(d) + 1, Len(f)) :
        f \in {g \in disk.files : Len(g) > Len(d) /\ SubSeq(g, 1, Len(d)) = d}}

\* both runs ended the same way, left the same files and returned the same count
SameMirror ==
    /\ m_out[1].raised = m_out[2].raised
    /\ FilesUnder(m_disk, RunDir(1)) = FilesUnder(m_disk, RunDir(2))
    /\ m_out[1].count = m_out[2].count

FailedTasks == {t \in DOMAIN a_tasks : a_tasks[t].pc = "done" /\ ~a_tasks[t].result}

\* the calls that returned True
SucceededTasks == {t \in DOMAIN a_tasks : a_tasks[t].pc = "done" /\ a_tasks[t].result}

\* C13: failure containment.  Whatever failure one item's acquisition ends with,
\* an exception leaving download_skill included, the pool is not aborted: when
\* download_skills_parallel returns, every submitted item has reached its own
\* terminal outcome, every failed item is in the attempted count and not in the
\* succeeded count, and the main thread never stops on a failed item.
C13_FailureContainment ==
    /\ (a_pc = "returned" /\ a_tasks # <<>>) =>
           /\ \A t \in DOMAIN a_tasks : a_tasks[t].pc = "done"
           /\ a_ret.total = Len(a_tasks)
           /\ a_ret.success = Cardinality(SucceededTasks)
           /\ a_ret.total = Cardinality(SucceededTasks) + Cardinality(FailedTasks)
    /\ a_pc = "pool" =>
           /\ a_collected \subseteq SucceededTasks \cup FailedTasks
           /\ a_success_count = Cardinality(a_collected \cap SucceededTasks)

\* the call returned after one item failed with an exception that left its worker
\* and another item succeeded
C13_Witness ==
    /\ a_pc = "returned"
    /\ \E t, u \in DOMAIN a_tasks : a_tasks[t].raised /\ a_tasks[u].result
    /\ a_ret = Counts(1, 2)

\* how often a phase occurs in a trace
Occurrences(trace, phase) == Cardinality({i \in DOMAIN trace : trace[i] = phase})

\* C14: bounded concurrency.  In every reachable state the number of items whose
\* acquisition is in progress (started and not yet terminal) is at most the worker
\* count, and each submitted item is executed exactly once: never twice, and once
\* by the time download_skills_parallel returns.
C14_BoundedConcurrency ==
    /\ Cardinality(Running) <= a_workers
    /\ \A t \in DOMAIN a_tasks :
           /\ Occurrences(a_tasks[t].trace, "Locating")
                  = (IF a_tasks[t].pc = "queued" THEN 0 ELSE 1)
           /\ a_pc = "returned" => a_tasks[t].pc = "done"

\* one worker: an item is in progress while the next one waits in the queue
C14_Witness ==
    /\ a_workers = 1
    /\ Len(a_tasks) = 2
    /\ a_tasks[1].pc = "fallback"
    /\ a_tasks[2].pc = "queued"

(***************************************************************************)
(* Claims about the per-item state machine, checked under Spec.            *)
(***************************************************************************)
\* the submitted calls for position i of skills
TasksOf(i) == {t \in DOMAIN a_tasks : a_tasks[t].item = i}

\* the phases of a trace without the direct fetch, which belongs to Mirroring
RECURSIVE MainPhases(_)
MainPhases(trace) ==
    IF trace = <<>> THEN <<>>
    ELSE IF Head(trace) = "Fallback" THEN MainPhases(Tail(trace))
    ELSE <<Head(trace)>> \o MainPhases(Tail(trace))

\* every item is either skipped by the filter loop or submitted exactly once, and
\* has reached its terminal outcome when the call returns
OneOutcomeEach ==
    /\ a_pc \in {"pool", "returned"} =>
           \A i \in 1..Len(a_skills) :
               IF i \in a_skipped THEN TasksOf(i) = {} ELSE Cardinality(TasksOf(i)) = 1
    /\ a_pc = "returned" => \A t \in DOMAIN a_tasks : a_tasks[t].pc = "done"

\* Mirroring is entered only with a SourceLocation from the Source Locator
MirroringNeedsLocation ==
    \A t \in DOMAIN a_tasks :
        Occurrences(a_tasks[t].trace, "Mirroring") > 0 =>
            /\ a_tasks[t].trace[1] = "Locating"
            /\ parse_github_url(a_skills[a_tasks[t].item].githubUrl).ok

ManifestFileAt(d) == Append(d, "SKILL.md") \in a_disk.files

\* the name of the skill of a submitted call
NameOf(t) == a_skills[a_tasks[t].item].name

\* C16: success implies manifest.  When an item is counted as succeeded and its
\* name is added to the registry, SKILL.md is at the item's computed destination;
\* and in every reachable state every name of the registry has a folder of that
\* name on disk that holds a manifest.
C16_SuccessImpliesManifest ==
    /\ \A t \in DOMAIN a_tasks :
           (a_tasks[t].pc = "locked" \/ a_tasks[t].result) =>
               /\ a_tasks[t].skill_dir = Destination(a_tasks[t].item)
               /\ ManifestFileAt(a_tasks[t].skill_dir)
    /\ \A t \in SucceededTasks : NameOf(t) \in a_downloaded_skills
    /\ \A name \in a_downloaded_skills :
           \E d \in a_disk.dirs : d # <<>> /\ d[Len(d)] = name /\ ManifestFileAt(d)

\* an item whose mirror brought no manifest was counted as succeeded after the
\* direct fetch, and its name is new in the registry
C16_Witness ==
    \E t \in SucceededTasks :
        /\ a_tasks[t].fetched.ret
        /\ NameOf(t) \in a_downloaded_skills \ a_registry0

\* the names of the items whose acquisition succeeded
SucceededNames == {NameOf(t) : t \in SucceededTasks}

\* a step in which a call ends without success
FailureStep(t) ==
    /\ t \in DOMAIN a_tasks
    /\ a_tasks[t].pc # "done"
    /\ a_tasks'[t].pc = "done"
    /\ ~a_tasks'[t].result

\* C17: registry evolution.  During a run the registry only grows; when
\* download_skills_parallel returns it is the registry at the start of the call
\* united with exactly the names of the items whose acquisition succeeded; a
\* failure adds no name.
C17_RegistryEvolution ==
    /\ [](a_pc \in {"pool", "returned"} =>
              a_downloaded_skills = a_registry0 \cup SucceededNames)
    /\ [][/\ a_downloaded_skills \subseteq a_downloaded_skills'
          /\ \A t \in TaskIds : FailureStep(t) => a_downloaded_skills' = a_downloaded_skills]_vars

\* the call returned with an item that succeeded and added its name and an item
\* of another name that failed and added nothing
C17_Witness ==
    /\ a_pc = "returned"
    /\ \E t \in SucceededTasks, u \in FailedTasks :
           /\ NameOf(t) \notin a_registry0
           /\ NameOf(u) \notin a_downloaded_skills

(***************************************************************************)
(* Claims about the lock and about termination, checked under SpecLive.    *)
(***************************************************************************)
\* the calls inside `with self._lock:`
LockHolders == {t \in DOMAIN a_tasks : a_tasks[t].pc = "locked"}

\* a step taken by call t
StepOf(t) == t \in DOMAIN a_tasks /\ a_tasks'[t] # a_tasks[t]

\* C18: registry lock discipline.  While workers are running every change of
\* the registry is made by the call that holds the lock, at most one call holds
\* the lock at any time, the holder's step makes no network call and writes no
\* file, and the lock is always released again.
C18_LockDiscipline ==
    /\ [](/\ Cardinality(LockHolders) <= 1
          /\ \A t \in LockHolders : a_lock = t
          /\ a_lock # 0 => a_lock \in LockHolders)
    /\ [][/\ a_downloaded_skills' # a_downloaded_skills =>
                 a_lock \in LockHolders /\ StepOf(a_lock) /\ a_lock' = 0
          /\ \A t \in LockHolders :
                 StepOf(t) => /\ a_calls' = a_calls
                              /\ a_disk' = a_disk
                              /\ a_lock' = 0]_vars
    /\ \A t \in TaskIds : (a_lock = t) ~> (a_lock = 0)

\* a call holds the lock while another call, past its verification, waits for it
C18_Witness ==
    /\ a_lock # 0
    /\ \E u \in DOMAIN a_tasks : u # a_lock /\ a_tasks[u].pc \in {"exists", "verified"}

\* C19: termination.  With every network call returning and finite remote
\* trees, every submitted call reaches its end, and download_skills_parallel
\* returns, only after every submitted call has ended, with a success count
\* that is at most the number of submitted calls.
C19_Termination ==
    /\ <>(a_pc = "returned")
    /\ \A t \in TaskIds : (t \in DOMAIN a_tasks) ~> (t \in DOMAIN a_tasks /\ a_tasks[t].pc = "done")
    /\ [](a_pc = "returned" =>
              /\ \A t \in DOMAIN a_tasks : a_tasks[t].pc = "done"
              /\ a_ret.success <= Len(a_tasks)
              /\ a_ret.success <= a_ret.total)

\* the call returned after two submitted calls ended, one of them after a mirror
\* and a direct fetch that both failed
C19_Witness ==
    /\ a_pc = "returned"
    /\ Len(a_tasks) = MaxSkills
    /\ \E t \in FailedTasks : a_tasks[t].fetched.done
    /\ SucceededTasks # {}

(***************************************************************************)
(* The direct fetch of the manifest, checked under Spec.                   *)
(***************************************************************************)
\* every attempt of one download was answered with a RequestException
FailedOnAllRetries(answer) ==
    \A n \in 1..default_max_retries : answer[n] = "request_exception"

\* the direct fetch is attempted exactly when the mirror returned no file or left
\* no manifest at the destination
FallbackExactlyWhenNeeded ==
    \A t \in DOMAIN a_tasks :
        LET task == a_tasks[t]
            needed == task.mirrored.done /\ (task.mirrored.count = 0 \/ ~task.mirrored.manifest)
        IN  /\ task.fetched.done => needed
            /\ needed => task.pc = "fallback" \/ task.fetched.done
            /\ task.pc = "fallback" => needed /\ ~task.fetched.done

\* SKILL.md is tried first and skill.md only after the first failed on all retries
CanonicalNameFirst ==
    \A t \in DOMAIN a_tasks :
        LET task == a_tasks[t] IN
        task.fetched.done =>
            /\ task.fetched.tried \in {1, 2}
            /\ task.fetched.tried = 2 <=> FailedOnAllRetries(task.fetched.answers[1])

\* what the direct fetch brought is at destination/SKILL.md, and no skill.md is written
WrittenToCanonicalPath ==
    /\ \A t \in DOMAIN a_tasks :
           a_tasks[t].fetched.ret => ManifestFileAt(a_tasks[t].skill_dir)
    /\ \A f \in a_disk.files : f[Len(f)] # "skill.md"

\* the item is Done when the direct fetch succeeded
DoneIfFetched ==
    \A t \in DOMAIN a_tasks :
        a_tasks[t].fetched.ret /\ a_tasks[t].pc = "done" => a_tasks[t].result

\* the item is Failed when the mirror left no manifest and both direct fetches failed
FailedIfNothingFetched ==
    \A t \in DOMAIN a_tasks :
        LET task == a_tasks[t] IN
        (/\ task.pc = "done"
         /\ task.mirrored.done /\ ~task.mirrored.manifest
         /\ task.fetched.done /\ ~task.fetched.ret) => ~future_result(task)

\* the same with one worker, where no other call writes into the destination
FailedIfNothingFetchedAlone == a_workers = 1 => FailedIfNothingFetched

\* C20: fallback manifest fetch.  The direct fetch is attempted exactly when the
\* mirror returned zero files or left no manifest at the destination; it tries
\* SKILL.md first and skill.md only if the first failed on all its retries; it
\* writes whichever succeeds to destination/SKILL.md; the item is Done if either
\* succeeds and Failed when the mirror wrote no manifest and both fail.
C20_FallbackFetch ==
    /\ FallbackExactlyWhenNeeded
    /\ CanonicalNameFirst
    /\ WrittenToCanonicalPath
    /\ DoneIfFetched
    /\ FailedIfNothingFetched

(***************************************************************************)
(* The mirror's count and its soft failures, checked under SpecMirror.     *)
(***************************************************************************)
\* the download of a file is answered with content within the retries, after
\* RequestExceptions only
Succeeds(responses) ==
    \E n \in 1..default_max_retries :
        /\ responses[n] = "ok"
        /\ \A k \in 1..(n - 1) : responses[k] = "request_exception"

\* the files of an answered listing whose download succeeds, as paths below the
\* listed directory
RECURSIVE Downloadable(_)
Downloadable(listing) ==
    IF ~listing.ok THEN {}
    ELSE UNION { LET e == listing.entries[i] IN
                 IF e.type = "file"
                 THEN IF e.download_url /\ Succeeds(e.responses) THEN {<<e.name>>} ELSE {}
                 ELSE {<<e.name>> \o f : f \in Downloadable(e.listing)}
               : i \in DOMAIN listing.entries }

\* some download of the listing is answered with an OSError
RECURSIVE MeetsOsError(_)
MeetsOsError(listing) ==
    /\ listing.ok
    /\ \E i \in DOMAIN listing.entries :
           LET e == listing.entries[i] IN
           IF e.type = "file" THEN \E n \in DOMAIN e.responses : e.responses[n] = "os_error"
           ELSE MeetsOsError(e.listing)

\* the runs that have ended
EndedRuns == {r \in Runs : r <= Len(m_out)}

\* C21: mirror count and soft failures.  download_github_directory returns
\* exactly the number of files it wrote over the whole subtree; a file that fails
\* on all retries is skipped and the remaining entries are still downloaded; a
\* failed listing of the root gives 0 and a failed listing of a subdirectory
\* contributes 0 while its siblings are downloaded; none of these failures is
\* raised to the caller.
C21_MirrorCountSoftFailures ==
    \A r \in EndedRuns :
        ~MeetsOsError(m_remote[r]) =>
            /\ ~m_out[r].raised
            /\ FilesUnder(m_disk, RunDir(r)) = Downloadable(m_remote[r])
            /\ m_out[r].count = Cardinality(FilesUnder(m_disk, RunDir(r)))
            /\ ~m_remote[r].ok => m_out[r].count = 0 /\ RunDir(r) \notin m_disk.dirs

\* in the first run the listing of the subdirectory failed, in the second the file
\* of the subdirectory failed on all retries; both times the manifest listed after
\* the subdirectory was written and counted
C21_Witness ==
    /\ m_pc = "done"
    /\ m_shape # <<>>
    /\ m_shape[1].type = "dir"
    /\ \A r \in Runs : m_remote[r].ok /\ ~MeetsOsError(m_remote[r])
    /\ ~m_remote[1].entries[1].listing.ok
    /\ m_remote[2].entries[1].listing.ok
    /\ ~Succeeds(m_remote[2].entries[1].listing.entries[1].responses)
    /\ \A r \in Runs : FilesUnder(m_disk, RunDir(r)) = {<<Manifest>>} /\ m_out[r].count = 1

(***************************************************************************)
(* Items without a usable source URL, checked under Spec.                  *)
(***************************************************************************)
\* the githubUrl is absent or parse_github_url (computed once in UrlInfo) rejects it
MalformedSource(skill) ==
    skill.githubUrl = <<>> \/ ~UrlInfo[skill.githubUrl].ok

\* the submitted calls whose skill has no usable source URL
MalformedTasks == {t \in DOMAIN a_tasks : MalformedSource(a_skills[a_tasks[t].item])}

\* C22: MalformedSource fails immediately.  A submitted item with an absent
\* source URL or one the Source Locator rejects is counted as failed, in one
\* step, without a network call, without a retry, and without creating,
\* modifying or removing anything on the filesystem or in the registry.
C22_MalformedSourceFailsAtOnce ==
    /\ [](/\ \A t \in MalformedTasks :
                 /\ a_tasks[t].pc \in {"queued", "done"}
                 /\ a_calls[a_tasks[t].item] = {}
                 /\ ~a_tasks[t].mirrored.done /\ ~a_tasks[t].fetched.done
                 /\ a_tasks[t].pc = "done" =>
                        /\ t \in FailedTasks
                        /\ ~a_tasks[t].raised
                        /\ a_tasks[t].trace = <<"Locating">>
          /\ a_pc = "returned" =>
                 a_ret.total - a_ret.success >= Cardinality(MalformedTasks))
    /\ [][\A t \in TaskIds :
              (t \in MalformedTasks /\ StepOf(t)) =>
                  /\ a_tasks'[t].pc = "done"
                  /\ a_disk' = a_disk
                  /\ a_downloaded_skills' = a_downloaded_skills
                  /\ a_calls' = a_calls]_vars

\* the call returned with an item whose URL the Source Locator rejects counted as
\* failed, next to an item that was acquired
C22_Witness ==
    /\ a_pc = "returned"
    /\ \E t \in MalformedTasks :
           /\ a_skills[a_tasks[t].item].githubUrl = BadUrl
           /\ t \in FailedTasks
    /\ SucceededTasks # {}
    /\ a_disk # a_disk0

(***************************************************************************)
(* Cleanup after a failure, checked under Spec.                            *)
(***************************************************************************)
\* directory d exists and nothing is in it
ExistsEmpty(disk, d) ==
    /\ d \in disk.dirs
    /\ ~\E q \in disk.files \cup disk.dirs : Len(q) > Len(d) /\ SubSeq(q, 1, Len(d)) = d

\* the calls that ended Failed after the mirror was started
FailedAfterLocating ==
    {t \in FailedTasks : Len(a_tasks[t].trace) >= 2 /\ a_tasks[t].trace[2] = "Mirroring"}

\* a step deletes no file, and removes no directory but the empty destination of
\* the call that takes the step
NothingDeleted ==
    /\ a_disk.files \subseteq a_disk'.files
    /\ \A d \in a_disk.dirs \ a_disk'.dirs :
           /\ ExistsEmpty(a_disk, d)
           /\ \E t \in DOMAIN a_tasks :
                  /\ StepOf(t)
                  /\ a_tasks[t].skill_dir = d
                  /\ a_tasks[t].pc \in {"rmdir_try", "rmdir_except"}
           /\ a_disk.dirs \ a_disk'.dirs = {d}

\* a step in which call t, past Locating, ends Failed
FailureAfterLocating(t) ==
    /\ FailureStep(t)
    /\ a_tasks[t].pc \notin {"queued", "locked"}

SubmittedItems == {a_tasks[t].item : t \in DOMAIN a_tasks}

\* C24: force redownload.  With force = True no item is skipped, whether or not
\* its name is in the registry or its manifest is on disk: every item of the list
\* is submitted (the returned total is the number of items), and every item with
\* a parseable source URL issues the directory-listing call.
C24_ForceRedownload ==
    (a_force /\ a_pc \in {"pool", "returned"}) =>
        /\ a_skipped = {}
        /\ Len(a_tasks) = Len(a_skills)
        /\ SubmittedItems = DOMAIN a_skills
        /\ a_pc = "returned" => a_ret.total = Len(a_skills)
        /\ \A t \in DOMAIN a_tasks \ MalformedTasks :
               /\ a_tasks[t].pc # "exists"
               /\ a_tasks[t].pc \notin {"queued", "mirror"} =>
                      "listing" \in a_calls[a_tasks[t].item]

\* with force = True the call returned after an item whose name was in the
\* registry and whose manifest was on disk at the start made the listing call
C24_Witness ==
    /\ a_force
    /\ a_pc = "returned"
    /\ \E t \in DOMAIN a_tasks :
           /\ a_skills[a_tasks[t].item].name \in a_registry0
           /\ Append(a_tasks[t].skill_dir, "SKILL.md") \in a_disk0.files
           /\ "listing" \in a_calls[a_tasks[t].item]

(***************************************************************************)
(* The cap of get_all_skills, checked under SpecCatalog.                   *)
(***************************************************************************)
\* the returned list has at most max_skills items, and no page was requested after
\* the filtered count of the pages before it had reached max_skills
WithinCap ==
    /\ \A k \in 0..(Len(c_served) - 1) : ~CapReached(k)
    /\ c_pc = "done" => Len(c_result) <= c_max_skills.val

\* C25 as stated: whenever a cap maxItems is given to get_all_skills, the
\* returned list has at most maxItems items and no page is requested after the
\* accumulated filtered count has reached maxItems.
C25_CapGiven == (c_mode = "all" /\ c_max_skills.given) => WithinCap

\* C25, amended: whenever a cap maxItems of 1 or more is given to get_all_skills,
\* the returned list has at most maxItems items and no page is requested after the
\* accumulated filtered count has reached maxItems (a maxItems of 0 does not limit).
C25_CapOfOneOrMore == (c_mode = "all" /\ LimitingCap) => WithinCap

\* get_all_skills returned max_skills items, fewer than the pages it requested
\* held after the filter, and left out a page the marketplace announced
C25_Witness ==
    /\ AllDone
    /\ LimitingCap
    /\ Len(c_result) = c_max_skills.val
    /\ Len(KeptItems(Len(c_served))) > c_max_skills.val
    /\ c_served[Len(c_served)].response.hasNext

(***************************************************************************)
(* A later run on what this run left on disk, checked under Spec.          *)
(***************************************************************************)
\* the registry a downloader constructed now, on the same SKILLS_DIR and in the
\* same mode, starts with
LaterRegistry == load_downloaded_skills(a_disk, a_organize)

\* the positions of skills a later download_skills_parallel(skills, force=False) submits
LaterSubmitted == Range(skills_to_download(a_skills, 1, LaterRegistry, FALSE))

\* C26: cross-run resumability.  If an item's acquisition ended Done in this run,
\* the registry prefill of a later run with the same root and mode holds the
\* item's name, so download_skills_parallel with force = False skips the item
\* and makes no network call for it, at both classified depths.
C26_CrossRunResumable ==
    a_pc = "returned" =>
        \A t \in SucceededTasks :
            /\ NameOf(t) \in LaterRegistry
            /\ a_tasks[t].item \notin LaterSubmitted

\* the same in flat mode only
C26_FlatResumable == a_organize \/ C26_CrossRunResumable

(***************************************************************************)
(* Two calls on one destination, checked under Spec.                       *)
(***************************************************************************)
\* the calls that are between the start of their mirror and their last step on disk
Mirroring ==
    {t \in DOMAIN a_tasks :
        a_tasks[t].pc \in {"mirror", "fallback", "verify", "except", "rmdir_try", "rmdir_except"}}

\* the calls that started a mirror
Mirrored ==
    {t \in DOMAIN a_tasks : Len(a_tasks[t].trace) >= 2 /\ a_tasks[t].trace[2] = "Mirroring"}

\* C27: no concurrent mirroring of one destination.  In every interleaving no two
\* workers are mirroring into (writing under, or removing) the same destination
\* at the same time, and with force = False each item name is mirrored at most
\* once per run, also when the list holds two entries with the same name.
C27_NoConcurrentMirroring ==
    /\ \A t, u \in Mirroring : a_tasks[t].skill_dir = a_tasks[u].skill_dir => t = u
    /\ ~a_force => \A t, u \in Mirrored : NameOf(t) = NameOf(u) => t = u

====
